---- MODULE Spec2Model ----
(***************************************************************************)
(* goRawrSquirrel: the middleware registry and chain composer, the gates   *)
(* of the request pipeline, the policy resolver and the token-bucket       *)
(* limiter, as state machines.                                             *)
(*                                                                         *)
(* Specifications:                                                         *)
(*   SpecBuilder   MiddlewareBuilder.Add / Build, ChainUnary / ChainStream *)
(*                 and the invocation of the composed chain                *)
(*   Spec          NewServer with its options, and requests through the    *)
(*                 installed chains                                        *)
(*   SpecResolve   policy.Resolver.Resolve over bounded groups and names   *)
(*   SpecRateLimit RateLimitUnary / RateLimitStream called directly on a   *)
(*                 limiter, with time passing                              *)
(***************************************************************************)
EXTENDS Integers, Sequences, FiniteSets, TLC

VARIABLES
    \* core.MiddlewareBuilder and the server built from it
    entries,      \* MiddlewareBuilder.entries
    unaryInt,     \* the composed unary interceptor installed in the server
    streamInt,    \* the composed stream interceptor installed in the server
    phase,        \* "config" until Build and chain composition, then "serving"
    optsSorted,   \* history: the options of NewServer came in priority order
    cfgResolver,  \* history: cfg.resolver once NewServer had applied its options
    \* one request travelling through a composed chain
    pc,           \* "idle" | "call" | "ret" | "crashed"
    req,          \* the request being handled
    cont,         \* the continuation about to be invoked (stages, then the handler)
    stack,        \* stages whose continuation call has not returned yet
    res,          \* the value being returned up the stack
    trace,        \* history: what ran for this request, in order
    hctx,         \* the context of the innermost call made so far
    s0ret,        \* history: what the outermost stage returned
    wraps,        \* history: the continuations constructed while this request was handled
    \* what the gates of the server hold
    now,          \* the time, in ticks
    global,       \* the Limiter created by WithRateLimitGlobal
    rlState,      \* per lane, the rateLimitState of the interceptor: resolver and groups
    ipBlocker,    \* the IPBlocker the IP gate evaluates
    \* the library used without a server
    resolver,     \* a policy.Resolver made by NewResolver
    lookups,      \* history: the Resolve calls made on it, with what they returned
    results,      \* history: what the calls of a lone rate-limit interceptor returned
    ipCall,       \* history: the call of a lone IP-block interceptor, and what it did
    gateCalls,    \* history: the calls of lone auth and request-ID interceptors
    \* one rate-limit interceptor called by several goroutines at once
    procs,        \* per goroutine: where it is in its call, and its local values
    stMu,         \* rateLimitState.mu: the goroutine that holds it, or 0
    stGroups,     \* rateLimitState.groups, by reference: group name -> place in limiters
    limiters,     \* every Limiter made so far, the global one first, each with its own lock
    \* one cache and one key, GetOrSet called by several goroutines at once
    cacheKind,    \* "L1" or "Tiered": whose GetOrSet is called
    rc,           \* L1.rc: the value ristretto holds for the key, or NoValue
    l2,           \* the value Redis holds for the key, or NoValue
    loads,        \* loads[key]: the place of the call in flight in calls, or 0
    calls,        \* every call struct made so far: wg done, val, err
    callers,      \* per goroutine: where it is in GetOrSet, and its local values
    loaderRuns,   \* history: what the invocations of the loader returned
    \* one circuit breaker
    breaker,      \* the Breaker: cfg, state, failures, successes, openedAt
    bcalls,       \* history: what the calls on the breaker saw and returned
    \* one call of retry.Do
    retryDo       \* Do: cfg, position, loop index, the context, the timer, fn's calls

cfgVars == <<entries, unaryInt, streamInt, phase, optsSorted, cfgResolver>>
runVars == <<pc, req, cont, stack, res, trace, hctx, s0ret, wraps>>
gateVars == <<now, global, rlState, ipBlocker>>
directVars == <<ipCall, gateCalls>>
concVars == <<procs, stMu, stGroups, limiters>>
cacheVars == <<cacheKind, rc, l2, loads, calls, callers, loaderRuns>>
breakerVars == <<breaker, bcalls>>
moreVars == <<cacheVars, breakerVars, retryDo>>
libVars == <<resolver, lookups, results, directVars, concVars, moreVars>>
vars == <<cfgVars, runVars, gateVars, libVars>>

-----------------------------------------------------------------------------
(* Bounds of the model *)

\* how many entries a builder receives
MaxEntries == 3

-----------------------------------------------------------------------------
(* Values *)

Lanes == {"unary", "stream"}

\* a nil interceptor
NilStage == [id |-> 0, kind |-> "nil"]

\* a nil error and the singleton status errors of the gates
NoErr == [code |-> "OK", msg |-> ""]
HandlerErr == [code |-> "NotFound", msg |-> "handler failed"]

NilResp == <<>>
OkResp == <<0>>

NoPanic == "none"
PanicValues == {"boom", "int42"}

\* what a call returns: a response, an error, or a panic in flight
Result(resp, err) == [resp |-> resp, err |-> err, panic |-> NoPanic]
Panicking(v) == [resp |-> NilResp, err |-> NoErr, panic |-> v]
NoResult == Result(NilResp, NoErr)

NoReq == [lane |-> "none"]
NoCall == [lane |-> "none"]
NoCtx == [rid |-> "", actor |-> ""]

\* an entry of the trace: what happened, and in which stage
Ev(e, s) == [ev |-> e, id |-> s.id, kind |-> s.kind]
TheHandler == [id |-> 0, kind |-> "handler"]

-----------------------------------------------------------------------------
(* core.MiddlewareBuilder: Add and Build *)

Middleware(order, unary, stream) == [Order |-> order, Unary |-> unary, Stream |-> stream]

\* cmp.Compare on the Order fields
CmpOrder(a, c) == IF a.Order < c.Order THEN -1 ELSE IF a.Order > c.Order THEN 1 ELSE 0

Swap(s, i, j) == [s EXCEPT ![i] = s[j], ![j] = s[i]]

\* a sort that also moves an entry in front of its equals
RECURSIVE SinkUnstable(_, _)
SinkUnstable(s, j) ==
    IF j > 1 /\ CmpOrder(s[j], s[j - 1]) <= 0
    THEN SinkUnstable(Swap(s, j, j - 1), j - 1)
    ELSE s

\* the inner loop of the stable sort: entry j moves left while it compares
\* strictly below its left neighbour
RECURSIVE Sink(_, _)
Sink(s, j) ==
    IF j > 1 /\ CmpOrder(s[j], s[j - 1]) < 0
    THEN Sink(Swap(s, j, j - 1), j - 1)
    ELSE s

RECURSIVE SortFrom(_, _)
SortFrom(s, i) == IF i > Len(s) THEN s ELSE SortFrom(Sink(s, i), i + 1)

\* no sort at all
SortNone(s) == s

\* slices.SortStableFunc(b.entries, by Order)
SortStableFunc(s) == SortFrom(s, 2)

LaneIc(m, lane) == IF lane = "unary" THEN m.Unary ELSE m.Stream

\* the loop of Build: the non-nil interceptors of one lane, in entry order
RECURSIVE LaneOf(_, _)
LaneOf(es, lane) ==
    IF es = <<>> THEN <<>>
    ELSE (IF LaneIc(Head(es), lane).kind # "nil" THEN <<LaneIc(Head(es), lane)>> ELSE <<>>)
         \o LaneOf(Tail(es), lane)

\* the entries and the two lanes Build leaves, once the entries are sorted
Lanes_(sorted) ==
    [entries |-> sorted, unary |-> LaneOf(sorted, "unary"), stream |-> LaneOf(sorted, "stream")]

\* MiddlewareBuilder.Build
Build(es) == Lanes_(SortStableFunc(es))

-----------------------------------------------------------------------------
(* interceptors.ChainUnary / ChainStream *)

\* the value ChainUnary / ChainStream returns: nil, the only interceptor
\* itself, or a closure over the slice
Chain(ics) ==
    [tag |-> IF Len(ics) = 0 THEN "nil" ELSE IF Len(ics) = 1 THEN "one" ELSE "chain",
     ics |-> ics]

\* a composition that wraps every interceptor, the first one included
RECURSIVE WrapAll(_, _, _)
WrapAll(ics, i, curr) ==
    IF i > 0 THEN WrapAll(ics, i - 1, <<ics[i]>> \o curr) ELSE curr

\* the loop of the closure: for i := len-1; i > 0; i-- wraps interceptors[i]
\* around curr. A continuation is the sequence of the stages it leads
\* through; the empty sequence is the real handler.
RECURSIVE WrapFrom(_, _, _)
WrapFrom(ics, i, curr) ==
    IF i > 1 THEN WrapFrom(ics, i - 1, <<ics[i]>> \o curr) ELSE curr

\* what a call of the composed interceptor invokes first, and with which
\* continuation; a nil interceptor is not installed and the server calls the
\* handler itself
ChainCall(c) ==
    IF c.tag = "nil" THEN <<>>
    ELSE IF c.tag = "one" THEN <<c.ics[1]>>
    ELSE <<c.ics[1]>> \o WrapFrom(c.ics, Len(c.ics), <<>>)

\* the composed interceptor returns what interceptors[0] returned
ChainReturn(r) == r

\* how many continuations a call of the composed interceptor constructs: the
\* closure runs its loop at every call, one new func value per iteration
Closures(c) == IF c.tag = "chain" THEN Len(WrapFrom(c.ics, Len(c.ics), <<>>)) ELSE 0

-----------------------------------------------------------------------------
(* policy: rules, groups, Resolver.Resolve *)

\* method names and patterns are sequences of characters
Alphabet == {"a", "b"}

kindExact == 0
kindPrefix == 1
kindRegex == 2

NilRateLimit == [isNil |-> TRUE, Rate |-> 0, Window |-> 0]
RateLimitRule(rate, window) == [isNil |-> FALSE, Rate |-> rate, Window |-> window]

NilPolicy == [isNil |-> TRUE, RateLimit |-> NilRateLimit, AuthRequired |-> FALSE]
Policy(rl, auth) == [isNil |-> FALSE, RateLimit |-> rl, AuthRequired |-> auth]

\* a compiled pattern of the modelled class: an optional ^, a literal, and an
\* optional trailing .* (greedy)
Regexp(anchored, lit, rest) == [anchored |-> anchored, lit |-> lit, rest |-> rest]
NoRegexp == Regexp(FALSE, <<>>, FALSE)

ExactRule(p) == [kind |-> kindExact, pattern |-> p, re |-> NoRegexp]
PrefixRule(p) == [kind |-> kindPrefix, pattern |-> p, re |-> NoRegexp]
RegexRule(re) == [kind |-> kindRegex, pattern |-> re.lit, re |-> re]

GroupBuilder(name, rules, pol) == [name |-> name, rules |-> rules, policy |-> pol]

\* strings.HasPrefix
HasPrefix(m, p) == Len(p) <= Len(m) /\ SubSeq(m, 1, Len(p)) = p

\* the offsets at which the literal of re occurs in m
LitStarts(re, m) ==
    {i \in 0..(Len(m) - Len(re.lit)) :
        /\ SubSeq(m, i + 1, i + Len(re.lit)) = re.lit
        /\ (re.anchored => i = 0)}

SetMin(S) == CHOOSE x \in S : \A y \in S : x <= y

\* the match of re in m that starts at the leftmost of the offsets in starts
LeftmostOf(re, m, starts) ==
    IF starts = {} THEN [found |-> FALSE, lo |-> 0, hi |-> 0]
    ELSE [found |-> TRUE, lo |-> SetMin(starts),
          hi |-> IF re.rest THEN Len(m) ELSE SetMin(starts) + Len(re.lit)]

\* regexp.FindStringIndex: the leftmost match, or none
FindStringIndex(re, m) == LeftmostOf(re, m, LitStarts(re, m))

NoMatch == [matched |-> FALSE, length |-> 0]
Matched(n) == [matched |-> TRUE, length |-> n]

\* the regex case of match: matched, with the length loc[1] - loc[0]
SpanOf(loc) == IF loc.found THEN Matched(loc.hi - loc.lo) ELSE NoMatch

\* a match that reports the length of the method name for every kind
matchWholeName(r, m) ==
    IF r.kind = kindExact
    THEN (IF m = r.pattern THEN Matched(Len(m)) ELSE NoMatch)
    ELSE IF r.kind = kindPrefix
    THEN (IF HasPrefix(m, r.pattern) THEN Matched(Len(m)) ELSE NoMatch)
    ELSE IF r.kind = kindRegex
    THEN (IF FindStringIndex(r.re, m).found THEN Matched(Len(m)) ELSE NoMatch)
    ELSE NoMatch

\* rule.match
match(r, m) ==
    IF r.kind = kindExact
    THEN (IF m = r.pattern THEN Matched(Len(r.pattern)) ELSE NoMatch)
    ELSE IF r.kind = kindPrefix
    THEN (IF HasPrefix(m, r.pattern) THEN Matched(Len(r.pattern)) ELSE NoMatch)
    ELSE IF r.kind = kindRegex
    THEN SpanOf(FindStringIndex(r.re, m))
    ELSE NoMatch

\* the named results of Resolve and its two locals, before the loops
ResolveStart ==
    [bestKind |-> -1, bestLen |-> -1, groupName |-> "", pol |-> NilPolicy, ok |-> FALSE]

\* a comparison that lets a later equal match replace the best one
BetterOrEqual(acc, kind, mLen) ==
    \/ acc.bestKind < 0
    \/ kind < acc.bestKind
    \/ (kind = acc.bestKind /\ mLen >= acc.bestLen)

\* a comparison that ranks by length before kind
BetterByLength(acc, kind, mLen) ==
    \/ acc.bestKind < 0
    \/ mLen > acc.bestLen
    \/ (mLen = acc.bestLen /\ kind < acc.bestKind)

\* the variable better of Resolve
Better(acc, kind, mLen) ==
    \/ acc.bestKind < 0
    \/ kind < acc.bestKind
    \/ (kind = acc.bestKind /\ mLen > acc.bestLen)

\* the body of the inner loop of Resolve for rule r of group g, whose match
\* gave mt
ResolveMatched(acc, g, r, mt) ==
    IF ~mt.matched THEN acc
    ELSE IF Better(acc, r.kind, mt.length)
    THEN [bestKind |-> r.kind, bestLen |-> mt.length,
          groupName |-> g.name, pol |-> g.policy, ok |-> TRUE]
    ELSE acc

ResolveStep(acc, g, r, m) == ResolveMatched(acc, g, r, match(r, m))

RECURSIVE ScanRules(_, _, _, _)
ScanRules(acc, g, rules, m) ==
    IF rules = <<>> THEN acc
    ELSE ScanRules(ResolveStep(acc, g, Head(rules), m), g, Tail(rules), m)

RECURSIVE ScanGroups(_, _, _)
ScanGroups(acc, gs, m) ==
    IF gs = <<>> THEN acc
    ELSE ScanGroups(ScanRules(acc, Head(gs), Head(gs).rules, m), Tail(gs), m)

\* results that always report a match
ResolvedAlways(acc) == [groupName |-> acc.groupName, pol |-> acc.pol, ok |-> TRUE]

\* the three results of Resolve
Resolved(acc) == [groupName |-> acc.groupName, pol |-> acc.pol, ok |-> acc.ok]

\* Resolver.Resolve(fullMethod) on a resolver holding the groups gs
Resolve(gs, m) == Resolved(ScanGroups(ResolveStart, gs, m))

-----------------------------------------------------------------------------
(* ratelimit.Limiter: a token bucket read at the time of each call *)

\* tokens are counted in fractions: TokenUnit fractions make one token
TokenUnit == 2

Min(a, b) == IF a < b THEN a ELSE b

\* ratelimit.NewLimiter(rps, burst), created at time t with a full bucket;
\* limit is in token fractions per tick
NewLimiter(limit, burst, t) ==
    [limit |-> limit, burst |-> burst, tokens |-> burst * TokenUnit, last |-> t]

\* the bucket at time t: refilled in proportion to the time elapsed since the
\* last admitted call, capped at the burst
Advance(l, t) == Min(l.burst * TokenUnit, l.tokens + (t - l.last) * l.limit)

\* a limiter that admits without looking at the bucket
AllowAlways(l, t) == [ok |-> TRUE, lim |-> l]

\* one token is taken if the bucket, holding tokens at time t, has one
Take(l, t, tokens) ==
    IF tokens >= TokenUnit
    THEN [ok |-> TRUE, lim |-> [l EXCEPT !.tokens = tokens - TokenUnit, !.last = t]]
    ELSE [ok |-> FALSE, lim |-> l]

\* Limiter.Allow at time t: whether one token is there, and the limiter afterwards
Allow(l, t) == Take(l, t, Advance(l, t))

-----------------------------------------------------------------------------
(* security.IPBlocker *)

\* addresses are the numbers below 2^AddrBits
AddrBits == 2
Addrs == 0..(2^AddrBits - 1)

Prefix(a, bits) == [addr |-> a, bits |-> bits]

\* netip.Prefix.Contains
Contains(p, a) == a \div 2^(AddrBits - p.bits) = p.addr \div 2^(AddrBits - p.bits)

\* a string that may hold an address: empty, unparsable, or the address a
EmptyTok == [t |-> "empty", a |-> 0]
BadTok == [t |-> "bad", a |-> 0]
AddrTok(a) == [t |-> "addr", a |-> a]

\* the peer of a context: none, a nil Addr, an Addr that does not parse, or a
NoPeer == [t |-> "none", a |-> 0]
NilPeer == [t |-> "niladdr", a |-> 0]
BadPeer == [t |-> "bad", a |-> 0]
AddrPeer(a) == [t |-> "addr", a |-> a]

HeaderKeys == {"x-real-ip", "x-forwarded-for"}
defaultHeaderPriority == <<"x-real-ip", "x-forwarded-for">>
NoMD == [k \in HeaderKeys |-> <<>>]

NoAddr == [ok |-> FALSE, a |-> 0]
SomeAddr(a) == [ok |-> TRUE, a |-> a]

IPBlocker(mode, cidrs, proxies, hp) ==
    [mode |-> mode, cidrs |-> cidrs, trustedProxies |-> proxies,
     headerPriority |-> IF Len(hp) = 0 THEN defaultHeaderPriority ELSE hp]

\* a membership test that looks at the first prefix only
matchesFirst(a, prefixes) == Len(prefixes) > 0 /\ Contains(prefixes[1], a)

\* matchesAny / isTrustedProxy
matchesAny(a, prefixes) == \E i \in 1..Len(prefixes) : Contains(prefixes[i], a)

\* peerAddrFromContext with addrFromNetAddr
peerAddrFromContext(peer) == IF peer.t = "addr" THEN SomeAddr(peer.a) ELSE NoAddr

\* a loop that keeps the right-most address of a header value
RECURSIVE addrFromPartsLast(_)
addrFromPartsLast(parts) ==
    IF parts = <<>> THEN NoAddr
    ELSE IF addrFromPartsLast(Tail(parts)).ok THEN addrFromPartsLast(Tail(parts))
    ELSE IF Head(parts).t = "addr" THEN SomeAddr(Head(parts).a)
    ELSE NoAddr

\* the loop over the comma-separated parts of one header value
RECURSIVE addrFromParts(_)
addrFromParts(parts) ==
    IF parts = <<>> THEN NoAddr
    ELSE IF Head(parts).t = "addr" THEN SomeAddr(Head(parts).a)
    ELSE addrFromParts(Tail(parts))

\* the first address found, or else the next one
OrElse(first, next) == IF first.ok THEN first ELSE next

\* a loop that reads the first value of a header only
addrFromValuesHead(vals) == IF vals = <<>> THEN NoAddr ELSE addrFromParts(Head(vals))

\* the loop over the values of one header
RECURSIVE addrFromValues(_)
addrFromValues(vals) ==
    IF vals = <<>> THEN NoAddr
    ELSE OrElse(addrFromParts(Head(vals)), addrFromValues(Tail(vals)))

\* a walk that prefers the headers later in the priority list
RECURSIVE addrFromHeadersLast(_, _)
addrFromHeadersLast(md, priority) ==
    IF priority = <<>> THEN NoAddr
    ELSE OrElse(addrFromHeadersLast(md, Tail(priority)), addrFromValues(md[Head(priority)]))

\* addrFromHeaders: the loop over the header keys in priority order
RECURSIVE addrFromHeaders(_, _)
addrFromHeaders(md, priority) ==
    IF priority = <<>> THEN NoAddr
    ELSE OrElse(addrFromValues(md[Head(priority)]), addrFromHeaders(md, Tail(priority)))

\* a resolution that reads the headers whoever the peer is
clientAddrOfAnyPeer(peerAddr, md, trustedProxies, headerPriority) ==
    IF ~peerAddr.ok THEN NoAddr
    ELSE OrElse(addrFromHeaders(md, headerPriority), peerAddr)

\* resolveClientAddr, given the peer address found in the context
clientAddrOf(peerAddr, md, trustedProxies, headerPriority) ==
    IF ~peerAddr.ok THEN NoAddr
    ELSE IF matchesAny(peerAddr.a, trustedProxies)
    THEN OrElse(addrFromHeaders(md, headerPriority), peerAddr)
    ELSE peerAddr

\* resolveClientAddr
resolveClientAddr(peer, md, trustedProxies, headerPriority) ==
    clientAddrOf(peerAddrFromContext(peer), md, trustedProxies, headerPriority)

\* a verdict that lets a request without a resolvable address through
verdictFailOpen(b, addr) ==
    IF ~addr.ok THEN TRUE
    ELSE IF b.mode = "AllowList" THEN matchesAny(addr.a, b.cidrs)
    ELSE IF b.mode = "DenyList" THEN ~matchesAny(addr.a, b.cidrs)
    ELSE FALSE

\* Evaluate, given the resolved client address
verdict(b, addr) ==
    IF ~addr.ok THEN FALSE
    ELSE IF b.mode = "AllowList" THEN matchesAny(addr.a, b.cidrs)
    ELSE IF b.mode = "DenyList" THEN ~matchesAny(addr.a, b.cidrs)
    ELSE FALSE

\* IPBlocker.Evaluate
Evaluate(b, peer, md) ==
    verdict(b, resolveClientAddr(peer, md, b.trustedProxies, b.headerPriority))

-----------------------------------------------------------------------------
(* interceptors: the gates *)

Stage(id, kind) == [id |-> id, kind |-> kind]

errBlocked == [code |-> "PermissionDenied", msg |-> "blocked"]
errRateLimited == [code |-> "ResourceExhausted", msg |-> "rate limit exceeded"]
errUnauthenticated == [code |-> "Unauthenticated", msg |-> "unauthenticated"]
errInternal == [code |-> "Internal", msg |-> "internal server error"]

\* errors an AuthFunc may return: a gRPC status of its own, or a plain error
AuthStatusErr == [code |-> "PermissionDenied", msg |-> "forbidden"]
AuthPlainErr == [code |-> "plain", msg |-> "bad token"]

NilResolver == [isNil |-> TRUE, groups |-> <<>>]
NewResolver(gs) == [isNil |-> FALSE, groups |-> gs]

NoLimiter == NewLimiter(0, 0, 0)
NoGroups == <<>>
rateLimitState(r) == [resolver |-> r, groups |-> NoGroups]
NoBlocker == IPBlocker("AllowList", <<>>, <<>>, <<>>)

\* the limit of a per-group limiter: Rate per Window, in token fractions per tick
GroupLimit(rl) == (rl.Rate * TokenUnit) \div rl.Window

\* a groupLimiter that seeds a new limiter at every call
groupLimiterReseed(st, name, rl, t) == NewLimiter(GroupLimit(rl), rl.Rate, t)

\* rateLimitState.groupLimiter: the cached limiter of the group, or a new one
\* seeded from the rule
groupLimiter(st, name, rl, t) ==
    IF name \in DOMAIN st.groups THEN st.groups[name]
    ELSE NewLimiter(GroupLimit(rl), rl.Rate, t)

\* a choice that takes the global limiter whatever Resolve returned
limiterOfGlobal(st, g, t, rr) == [isGlobal |-> TRUE, name |-> "", lim |-> g]

\* a choice that gives every resolved group a limiter of its own, rate limit
\* or not
limiterOfAnyGroup(st, g, t, rr) ==
    IF rr.ok
    THEN [isGlobal |-> FALSE, name |-> rr.groupName,
          lim |-> groupLimiter(st, rr.groupName, RateLimitRule(1, 1), t)]
    ELSE [isGlobal |-> TRUE, name |-> "", lim |-> g]

\* limiterFor, given what Resolve returned: which limiter governs the method,
\* under which cache key, and whether it is the global one
limiterOf(st, g, t, rr) ==
    IF rr.ok /\ ~rr.pol.isNil /\ ~rr.pol.RateLimit.isNil
    THEN [isGlobal |-> FALSE, name |-> rr.groupName,
          lim |-> groupLimiter(st, rr.groupName, rr.pol.RateLimit, t)]
    ELSE [isGlobal |-> TRUE, name |-> "", lim |-> g]

\* rateLimitState.limiterFor
limiterFor(st, g, m, t) ==
    IF st.resolver.isNil THEN [isGlobal |-> TRUE, name |-> "", lim |-> g]
    ELSE limiterOf(st, g, t, Resolve(st.resolver.groups, m))

\* an authError that answers Unauthenticated whatever the error is
authErrorFixed(err) == errUnauthenticated

\* authError
authError(err) == IF err.code # "plain" THEN err ELSE errUnauthenticated

\* identifiers newRequestID may draw
GenIDs == {"gen1", "gen2"}

\* what a stage can decide by itself when it is invoked: a user interceptor
\* calls its continuation or panics; an AuthFunc
\* accepts (with or without an actor) or fails with a status or a plain error
StageChoices(s, lane, ctx) ==
    IF s.kind = "user" THEN {"call", "panic"}
    ELSE IF s.kind = "auth" THEN {"ok", "actor", "status", "plain"}
    ELSE IF s.kind = "requestid" /\ lane = "unary" /\ ctx.rid = "" THEN GenIDs
    ELSE {"none"}

Next_(ctx) == [act |-> "next", res |-> NoResult, ctx |-> ctx]
Return_(r, ctx) == [act |-> "ret", res |-> r, ctx |-> ctx]

\* a rate-limit gate that calls the handler whatever Allow says
RateLimitEnterOpen(ok, ctx) == Next_(ctx)

\* RateLimitUnary / RateLimitStream after Allow
RateLimitEnter(ok, ctx) ==
    IF ~ok THEN Return_(Result(NilResp, errRateLimited), ctx) ELSE Next_(ctx)

\* an IP gate that calls the handler whatever Evaluate says
IPBlockEnterOpen(b, r, ctx) == Next_(ctx)

\* IPBlockUnary / IPBlockStream
IPBlockEnter(b, r, ctx) ==
    IF ~Evaluate(b, r.peer, r.md) THEN Return_(Result(NilResp, errBlocked), ctx)
    ELSE Next_(ctx)

\* AuthUnary / AuthStream: the stream interceptor discards the new context
AuthEnter(lane, ch, ctx) ==
    IF ch = "status" THEN Return_(Result(NilResp, authError(AuthStatusErr)), ctx)
    ELSE IF ch = "plain" THEN Return_(Result(NilResp, authError(AuthPlainErr)), ctx)
    ELSE IF ch = "actor" /\ lane = "unary" THEN Next_([ctx EXCEPT !.actor = "alice"])
    ELSE Next_(ctx)

\* a request-ID interceptor that sets an ID of its own whatever the context holds
RequestIDEnterOverwrite(lane, ch, ctx) == Next_([ctx EXCEPT !.rid = ch])

\* RequestIDUnary with ensureRequestID; RequestIDStream passes through
RequestIDEnter(lane, ch, ctx) ==
    IF lane = "unary" /\ ctx.rid = "" THEN Next_([ctx EXCEPT !.rid = ch]) ELSE Next_(ctx)

\* a user interceptor
UserEnter(ch, ctx) ==
    IF ch = "call" THEN Next_(ctx)
    ELSE [act |-> "panic", res |-> Panicking("boom"), ctx |-> ctx]

\* the part of stage s before its continuation: what it does with request r
\* in context ctx, given its own choice ch and the verdict of its limiter
StageEnter(s, r, ctx, ch, allowed) ==
    IF s.kind = "ipblock" THEN IPBlockEnter(ipBlocker, r, ctx)
    ELSE IF s.kind = "ratelimit" THEN RateLimitEnter(allowed, ctx)
    ELSE IF s.kind = "auth" THEN AuthEnter(r.lane, ch, ctx)
    ELSE IF s.kind = "requestid" THEN RequestIDEnter(r.lane, ch, ctx)
    ELSE IF s.kind = "user" THEN UserEnter(ch, ctx)
    ELSE Next_(ctx)

\* a recovery that hands the panic on
RecoveryLeaveRethrow(lane, r) == r

\* the deferred function of RecoveryUnary / RecoveryStream, and the return of
\* the continuation's values when nothing panicked
RecoveryLeave(lane, r) ==
    IF r.panic # NoPanic THEN Result(NilResp, errInternal) ELSE r

\* the part of stage s after its continuation returned r (or panicked): a
\* user interceptor of the unary lane adds its mark to a response, the gates
\* return what they got, and only recovery stops a panic
StageLeave(s, lane, r) ==
    IF s.kind = "recovery" THEN RecoveryLeave(lane, r)
    ELSE IF r.panic # NoPanic THEN r
    ELSE IF s.kind = "user" /\ lane = "unary" /\ r.err = NoErr
    THEN Result(Append(r.resp, s.id), r.err)
    ELSE r

-----------------------------------------------------------------------------
(* One request through a composed chain *)

Done == pc = "ret" /\ Len(stack) = 0

\* the process is still there: no panic left the chain
Alive == ~(Done /\ res.panic # NoPanic)

ChainOf(lane) == IF lane = "unary" THEN unaryInt ELSE streamInt

Request(lane, m, peer, md, rid) ==
    [lane |-> lane, method |-> m, peer |-> peer, md |-> md, rid |-> rid]

\* the server hands request r to the composed interceptor of its lane
StartCall(r) ==
    /\ phase = "serving"
    /\ pc = "idle" \/ Done
    /\ Alive
    /\ req' = r
    /\ cont' = ChainCall(ChainOf(r.lane))
    /\ stack' = <<>>
    /\ res' = NoResult
    /\ trace' = <<>>
    /\ wraps' = Closures(ChainOf(r.lane))
    /\ hctx' = [rid |-> r.rid, actor |-> ""]
    /\ s0ret' = NoResult
    /\ pc' = "call"

\* the limiters after the governing limiter sel answered a
AfterAllow(st, g, sel, a) ==
    [ok |-> a.ok,
     global |-> IF sel.isGlobal THEN a.lim ELSE g,
     groups |-> IF sel.isGlobal THEN st.groups ELSE (sel.name :> a.lim) @@ st.groups]

AllowOf(st, g, sel, t) == AfterAllow(st, g, sel, Allow(sel.lim, t))

\* st.limiterFor(info.FullMethod).Allow(): the verdict, and the limiters after it
RateLimitVerdict(st, g, m, t) == AllowOf(st, g, limiterFor(st, g, m, t), t)

\* the check of a gate fails: the blocker denies the address, the limiter has
\* no token, the AuthFunc returns an error
Refuses(s, r, ch, v) ==
    IF s.kind = "ipblock" THEN ~Evaluate(ipBlocker, r.peer, r.md)
    ELSE IF s.kind = "ratelimit" THEN ~v.ok
    ELSE IF s.kind = "auth" THEN ch \in {"status", "plain"}
    ELSE FALSE

\* stage s has run its first part with outcome o, its limiter having answered
\* v; the trace notes the stage and whether its check failed
Entered(s, v, o, refused) ==
    /\ trace' = Append(trace, Ev("pre", s)) \o (IF refused THEN <<Ev("refused", s)>> ELSE <<>>)
    /\ global' = v.global
    /\ rlState' = [rlState EXCEPT ![req.lane].groups = v.groups]
    /\ hctx' = o.ctx
    /\ pc' = IF o.act = "next" THEN "call" ELSE "ret"
    /\ cont' = IF o.act = "next" THEN Tail(cont) ELSE <<>>
    /\ stack' = IF o.act = "next" THEN Append(stack, s) ELSE stack
    /\ res' = IF o.act = "next" THEN res
              ELSE IF Len(stack) = 0 THEN ChainReturn(o.res) ELSE o.res
    /\ s0ret' = IF o.act # "next" /\ Len(stack) = 0 THEN o.res ELSE s0ret

EnterWith(s, ch, v) ==
    Entered(s, v, StageEnter(s, req, hctx, ch, v.ok), Refuses(s, req, ch, v))

\* the limiters are touched by the rate-limit stage alone
VerdictFor(s) ==
    IF s.kind = "ratelimit"
    THEN RateLimitVerdict(rlState[req.lane], global, req.method, now)
    ELSE [ok |-> TRUE, global |-> global, groups |-> rlState[req.lane].groups]

\* the continuation invokes its first stage, which runs up to its own call of
\* the next continuation, or returns or panics without calling it
Enter ==
    /\ pc = "call"
    /\ Len(cont) > 0
    /\ \E ch \in StageChoices(Head(cont), req.lane, hctx) :
        EnterWith(Head(cont), ch, VerdictFor(Head(cont)))
    /\ UNCHANGED <<cfgVars, req, wraps, now, ipBlocker, libVars>>

\* what the real handler may do
HandlerOutcomes(lane) ==
    {Result(IF lane = "unary" THEN OkResp ELSE NilResp, NoErr), Result(NilResp, HandlerErr)}
    \cup {Panicking(v) : v \in PanicValues}

\* the last continuation is the real handler
RunHandler ==
    /\ pc = "call"
    /\ Len(cont) = 0
    /\ \E out \in HandlerOutcomes(req.lane) :
        /\ res' = out
        /\ s0ret' = s0ret
    /\ trace' = Append(trace, Ev("handler", TheHandler))
    /\ pc' = "ret"
    /\ UNCHANGED <<cfgVars, gateVars, req, cont, stack, hctx, wraps, libVars>>

\* the continuation of the innermost waiting stage has returned or panicked:
\* the stage runs its remaining part and returns in turn
\* stage s returns r to its caller
Left(s, r) ==
    /\ stack' = SubSeq(stack, 1, Len(stack) - 1)
    /\ res' = IF Len(stack) = 1 THEN ChainReturn(r) ELSE r
    /\ s0ret' = IF Len(stack) = 1 THEN r ELSE s0ret
    /\ trace' = Append(trace,
           Ev(IF res.panic = NoPanic THEN "post"
              ELSE IF r.panic = NoPanic THEN "recovered" ELSE "unwound", s))

Leave ==
    /\ pc = "ret"
    /\ Len(stack) > 0
    /\ Left(stack[Len(stack)], StageLeave(stack[Len(stack)], req.lane, res))
    /\ UNCHANGED <<cfgVars, gateVars, pc, req, cont, hctx, wraps, libVars>>

-----------------------------------------------------------------------------
(* SpecBuilder: a MiddlewareBuilder filled by Add, then Build and the chains *)

\* the Order values the entries are given
Priorities == {10, 20}

IdleRun ==
    /\ pc = "idle"
    /\ req = NoReq
    /\ cont = <<>>
    /\ stack = <<>>
    /\ res = NoResult
    /\ trace = <<>>
    /\ hctx = NoCtx
    /\ s0ret = NoResult
    /\ wraps = 0

NoGates ==
    /\ now = 0
    /\ global = NoLimiter
    /\ rlState = [l \in Lanes |-> rateLimitState(NilResolver)]
    /\ ipBlocker = NoBlocker

EmptyConfig ==
    /\ entries = <<>>
    /\ unaryInt = Chain(<<>>)
    /\ streamInt = Chain(<<>>)
    /\ phase = "config"
    /\ optsSorted = TRUE
    /\ cfgResolver = NilResolver

\* a goroutine that has not called yet
IdleProc ==
    [pc |-> "idle", method |-> <<>>, name |-> "", rl |-> NilRateLimit,
     lim |-> 0, seen |-> NoLimiter, ok |-> FALSE, out |-> Next_(NoCtx),
     cached |-> FALSE]

\* a Limiter as the goroutines share it: the group it was made for ("" for
\* the global one), its state, and the goroutine inside its Allow, or 0
Shared(group, l) == [group |-> group, lim |-> l, mu |-> 0]

NoGoroutines ==
    /\ procs = <<>>
    /\ stMu = 0
    /\ stGroups = NoGroups
    /\ limiters = <<>>

\* no value: a miss of Get, the val of a call that failed
NoValue == 0

NoCacheUse ==
    /\ cacheKind = "L1"
    /\ rc = NoValue
    /\ l2 = NoValue
    /\ loads = 0
    /\ calls = <<>>
    /\ callers = <<>>
    /\ loaderRuns = <<>>

NoBreakerUse ==
    /\ breaker = <<>>
    /\ bcalls = <<>>

NoRetryUse == retryDo = <<>>

NoLibraryUse ==
    /\ resolver = NilResolver
    /\ lookups = <<>>
    /\ results = <<>>
    /\ ipCall = NoCall
    /\ gateCalls = <<>>
    /\ NoGoroutines
    /\ NoCacheUse /\ NoBreakerUse /\ NoRetryUse

InitBuilder == EmptyConfig /\ IdleRun /\ NoGates /\ NoLibraryUse

\* MiddlewareBuilder.Add(order, unary, stream); the interceptors of the
\* entry carry the number of the Add call
Add ==
    /\ phase = "config"
    /\ Len(entries) < MaxEntries
    /\ \E order \in Priorities, hasUnary, hasStream \in BOOLEAN :
        LET id == Len(entries) + 1
        IN entries' = Append(entries,
               Middleware(order,
                          IF hasUnary THEN Stage(id, "user") ELSE NilStage,
                          IF hasStream THEN Stage(id, "user") ELSE NilStage))
    /\ UNCHANGED <<unaryInt, streamInt, phase, optsSorted, cfgResolver, runVars, gateVars, libVars>>

\* the chains over the two lanes that Build returned
Installed(b) ==
    /\ entries' = b.entries
    /\ unaryInt' = Chain(b.unary)
    /\ streamInt' = Chain(b.stream)

\* Build, then ChainUnary and ChainStream over the two lanes
BuildChains ==
    /\ phase = "config"
    /\ Installed(Build(entries))
    /\ phase' = "serving"
    /\ UNCHANGED <<optsSorted, cfgResolver, runVars, gateVars, libVars>>

\* the composed chain of one lane is invoked
Invoke ==
    /\ \E lane \in Lanes : StartCall(Request(lane, <<>>, NoPeer, NoMD, ""))
    /\ UNCHANGED <<cfgVars, gateVars, libVars>>

NextBuilder == Add \/ BuildChains \/ Invoke \/ Enter \/ RunHandler \/ Leave

SpecBuilder == InitBuilder /\ [][NextBuilder]_vars

-----------------------------------------------------------------------------
(* Spec: NewServer with its options, then requests *)

\* how many options NewServer is given
MaxOpts == 6

orderRecovery == 10
orderIPBlock == 20
orderRateLimit == 25
orderAuth == 28
orderRequestID == 30
orderInterceptor == 100

\* the arguments of the options: the blocker of WithIPBlocker admits the
\* addresses 2 and 3, the limiter of WithRateLimitGlobal does not refill, and
\* the resolver of WithResolver gives the methods that start with "a" a
\* group of their own with a rate limit and AuthRequired
ServerBlocker == IPBlocker("AllowList", <<Prefix(2, 1)>>, <<>>, <<>>)
ServerBurst == 1
ServerLimit == 0
ServerResolver ==
    NewResolver(<<GroupBuilder("g1", <<PrefixRule(<<"a">>)>>,
                               Policy(RateLimitRule(1, 1), TRUE))>>)

\* the options at hand: WithRecovery, WithIPBlocker, WithRateLimitGlobal,
\* WithAuth, WithResolver, WithUnaryInterceptor twice, WithStreamInterceptor
ServerOptions ==
    <<"recovery", "ipblock", "ratelimit", "auth", "resolver", "unary", "unary", "stream">>

\* the lists of up to n different elements of S, in any order
RECURSIVE ListsOver(_, _)
ListsOver(S, n) ==
    IF n = 0 THEN {<<>>}
    ELSE {<<>>} \cup UNION {{<<x>> \o t : t \in ListsOver(S \ {x}, n - 1)} : x \in S}

\* the option lists: up to MaxOpts of the options at hand, in any order
OptionLists ==
    {[i \in 1..Len(l) |-> ServerOptions[l[i]]] : l \in ListsOver(1..Len(ServerOptions), MaxOpts)}

\* var cfg config
ZeroConfig ==
    [middlewares |-> <<>>, resolver |-> NilResolver, ipBlocker |-> NoBlocker,
     global |-> NoLimiter, rlResolver |-> NilResolver]

\* how many user interceptors the entries hold
UserCount(es) ==
    Cardinality({k \in 1..Len(es) : es[k].Unary.kind = "user" \/ es[k].Stream.kind = "user"})

\* c.middlewares.Add(order, unary, stream) with interceptors of one kind; a
\* user interceptor carries its rank among the user interceptors supplied
AddKind(c, order, kind, hasUnary, hasStream) ==
    [c EXCEPT !.middlewares = Append(@,
        Middleware(order,
                   IF hasUnary
                   THEN Stage(IF kind = "user" THEN UserCount(@) + 1 ELSE 0, kind)
                   ELSE NilStage,
                   IF hasStream
                   THEN Stage(IF kind = "user" THEN UserCount(@) + 1 ELSE 0, kind)
                   ELSE NilStage))]

\* WithRateLimitGlobal that looks the resolver up when the server is built
WithRateLimitGlobalLate(c, t) ==
    [AddKind(c, orderRateLimit, "ratelimit", TRUE, TRUE)
        EXCEPT !.global = NewLimiter(ServerLimit, ServerBurst, t)]

\* WithRateLimitGlobal: the limiter, and the two interceptors over the
\* resolver that the config holds at this moment
WithRateLimitGlobal(c, t) ==
    [AddKind(c, orderRateLimit, "ratelimit", TRUE, TRUE)
        EXCEPT !.global = NewLimiter(ServerLimit, ServerBurst, t),
               !.rlResolver = c.resolver]

\* the options of options.go, applied to the config
Apply(c, o, t) ==
    IF o = "unary" THEN AddKind(c, orderInterceptor, "user", TRUE, FALSE)
    ELSE IF o = "stream" THEN AddKind(c, orderInterceptor, "user", FALSE, TRUE)
    ELSE IF o = "recovery"
    THEN AddKind(AddKind(c, orderRecovery, "recovery", TRUE, TRUE),
                 orderRequestID, "requestid", TRUE, TRUE)
    ELSE IF o = "resolver" THEN [c EXCEPT !.resolver = ServerResolver]
    ELSE IF o = "ipblock"
    THEN [AddKind(c, orderIPBlock, "ipblock", TRUE, TRUE) EXCEPT !.ipBlocker = ServerBlocker]
    ELSE IF o = "auth" THEN AddKind(c, orderAuth, "auth", TRUE, TRUE)
    ELSE IF o = "ratelimit" THEN WithRateLimitGlobal(c, t)
    ELSE c

\* for _, o := range opts { o(&cfg) }
RECURSIVE ApplyAll(_, _, _)
ApplyAll(c, opts, t) ==
    IF opts = <<>> THEN c ELSE ApplyAll(Apply(c, Head(opts), t), Tail(opts), t)

\* the server built from the config
Served(c) ==
    /\ Installed(Build(c.middlewares))
    /\ optsSorted' = (SortStableFunc(c.middlewares) = c.middlewares)
    /\ cfgResolver' = c.resolver
    /\ global' = c.global
    /\ rlState' = [l \in Lanes |-> rateLimitState(c.rlResolver)]
    /\ ipBlocker' = c.ipBlocker
    /\ phase' = "serving"

\* NewServer(opts...)
NewServer ==
    /\ phase = "config"
    /\ \E opts \in OptionLists : Served(ApplyAll(ZeroConfig, opts, now))
    /\ UNCHANGED <<runVars, now, libVars>>

ServerMethods == {<<"a">>, <<"b">>}
ServerPeers == {AddrPeer(0), AddrPeer(2)}
IncomingIDs == {"", "upstream"}

ServerRequests ==
    {Request(lane, m, peer, NoMD, rid) :
        lane \in Lanes, m \in ServerMethods, peer \in ServerPeers, rid \in IncomingIDs}

\* a request arrives at the server
Serve ==
    /\ \E r \in ServerRequests : StartCall(r)
    /\ UNCHANGED <<cfgVars, gateVars, libVars>>

Init == EmptyConfig /\ IdleRun /\ NoGates /\ NoLibraryUse

Next == NewServer \/ Serve \/ Enter \/ RunHandler \/ Leave

Spec == Init /\ [][Next]_vars

-----------------------------------------------------------------------------
(* SpecResolve: a Resolver over groups built with Group, Exact, Prefix, Regex
   and Policy, and Resolve calls on it *)

\* how many groups NewResolver is given
MaxGroups == 2
\* how many rules a group has
MaxRules == 2
\* how long a method name is
MaxLen == 2
\* how many Resolve calls are made
MaxLookups == 2

GroupNames == <<"g1", "g2", "g3", "g4">>

\* the rules the groups are built from: Exact("a"), Exact("ab"), Prefix("a"),
\* Prefix("ab"), Regex("b"), Regex("^a.*")
RulePool ==
    {ExactRule(<<"a">>), ExactRule(<<"a", "b">>),
     PrefixRule(<<"a">>), PrefixRule(<<"a", "b">>),
     RegexRule(Regexp(FALSE, <<"b">>, FALSE)), RegexRule(Regexp(TRUE, <<"a">>, TRUE))}

\* what a group is built with: its rules, and whether Policy was called
GroupBodies == [rules : ListsOver(RulePool, MaxRules), hasPolicy : BOOLEAN]

\* the policy given to the i-th group
GroupPolicy(i) == Policy(RateLimitRule(i, 1), FALSE)

\* Group(name).Exact(..)...Policy(..) for each of the bodies, in argument order
GroupsOf(bodies) ==
    [i \in 1..Len(bodies) |->
        GroupBuilder(GroupNames[i], bodies[i].rules,
                     IF bodies[i].hasPolicy THEN GroupPolicy(i) ELSE NilPolicy)]

ResolverArgs == UNION {[1..n -> GroupBodies] : n \in 0..MaxGroups}

\* the method names asked for
Methods == UNION {[1..n -> Alphabet] : n \in 0..MaxLen}

\* NewResolver(groups...)
MakeResolver ==
    /\ resolver.isNil
    /\ \E bodies \in ResolverArgs : resolver' = NewResolver(GroupsOf(bodies))
    /\ UNCHANGED <<cfgVars, runVars, gateVars, lookups, results, directVars, concVars, moreVars>>

\* res.Resolve(m); the resolver is only read
Lookup ==
    /\ ~resolver.isNil
    /\ Len(lookups) < MaxLookups
    /\ \E m \in Methods :
        lookups' = Append(lookups, [method |-> m, out |-> Resolve(resolver.groups, m)])
    /\ UNCHANGED <<cfgVars, runVars, gateVars, resolver, results, directVars, concVars, moreVars>>

InitResolve == EmptyConfig /\ IdleRun /\ NoGates /\ NoLibraryUse

NextResolve == MakeResolver \/ Lookup

SpecResolve == InitResolve /\ [][NextResolve]_vars

-----------------------------------------------------------------------------
(* SpecResolveShared: a Resolver made from one group, whose *GroupBuilder
   the caller of NewResolver still holds and goes on using *)

\* NewResolver(g): the resolver keeps the pointer it was given
MakeSharedResolver ==
    /\ resolver.isNil
    /\ \E body \in GroupBodies : resolver' = NewResolver(GroupsOf(<<body>>))
    /\ UNCHANGED <<cfgVars, runVars, gateVars, lookups, results, directVars, concVars, moreVars>>

\* g.rules = append(g.rules, r) on the builder the resolver points to
RuleAppended(r) ==
    resolver' = [resolver EXCEPT !.groups[1].rules = Append(resolver.groups[1].rules, r)]

\* g.Exact(p), g.Prefix(p) or g.Regex(p), called after NewResolver(g)
BuilderAddRule ==
    /\ ~resolver.isNil
    /\ Len(resolver.groups[1].rules) < MaxRules
    /\ \E r \in RulePool : RuleAppended(r)
    /\ UNCHANGED <<cfgVars, runVars, gateVars, lookups, results, directVars, concVars, moreVars>>

\* g.Policy(p), called after NewResolver(g): g.policy = &p
BuilderSetPolicy ==
    /\ ~resolver.isNil
    /\ resolver.groups[1].policy # GroupPolicy(2)
    /\ resolver' = [resolver EXCEPT !.groups[1].policy = GroupPolicy(2)]
    /\ UNCHANGED <<cfgVars, runVars, gateVars, lookups, results, directVars, concVars, moreVars>>

NextResolveShared == MakeSharedResolver \/ BuilderAddRule \/ BuilderSetPolicy \/ Lookup

SpecResolveShared == InitResolve /\ [][NextResolveShared]_vars

-----------------------------------------------------------------------------
(* SpecRateLimit: RateLimitUnary and RateLimitStream over one global limiter,
   called directly with a handler that succeeds, as time passes *)

\* the greatest burst of the limiter
MaxBurst == 3
\* how many calls are made
MaxCalls == 6
\* how far the time advances
MaxTime == 2
\* the refill rates of the limiter, in token fractions per tick
Limits == {0, 1}

\* what the caller of the interceptor sees, and whether the handler ran
Outcome(lane, t, o) ==
    [lane |-> lane, at |-> t, handled |-> o.act = "next",
     res |-> IF o.act = "next"
             THEN Result(IF lane = "unary" THEN OkResp ELSE NilResp, NoErr)
             ELSE o.res]

\* the interceptor of a lane has answered v and the call has returned
Limited(lane, v) ==
    /\ global' = v.global
    /\ rlState' = [rlState EXCEPT ![lane].groups = v.groups]
    /\ results' = Append(results, Outcome(lane, now, RateLimitEnter(v.ok, NoCtx)))

\* one call of the interceptor returned by RateLimitUnary or RateLimitStream
CallLimited ==
    /\ Len(results) < MaxCalls
    /\ \E lane \in Lanes, m \in ServerMethods :
        Limited(lane, RateLimitVerdict(rlState[lane], global, m, now))
    /\ UNCHANGED <<cfgVars, runVars, now, ipBlocker, resolver, lookups, directVars, concVars, moreVars>>

\* time passes
Tick ==
    /\ now < MaxTime
    /\ now' = now + 1
    /\ UNCHANGED <<cfgVars, runVars, global, rlState, ipBlocker, libVars>>

\* ratelimit.NewLimiter, then RateLimitUnary(l, nil) and RateLimitStream(l, nil)
InitRateLimit ==
    /\ EmptyConfig /\ IdleRun /\ NoLibraryUse
    /\ now = 0
    /\ \E limit \in Limits, burst \in 0..MaxBurst : global = NewLimiter(limit, burst, 0)
    /\ rlState = [l \in Lanes |-> rateLimitState(NilResolver)]
    /\ ipBlocker = NoBlocker

NextRateLimit == CallLimited \/ Tick

SpecRateLimit == InitRateLimit /\ [][NextRateLimit]_vars

-----------------------------------------------------------------------------
(* SpecPolicyLimit: RateLimitUnary(l, r) and RateLimitStream(l, r) as
   WithRateLimitGlobal makes them, over one limiter l and one resolver r of
   two groups, called directly with a handler that succeeds *)

\* how many calls are made
MaxPolicyCalls == 4
\* the burst of the global limiter, which does not refill
PolicyBurst == 2

\* the groups of the resolver: a name, one rule, and no policy, a policy
\* without a rate limit, or a policy with one of two rate limits
PolicyGroups ==
    {GroupBuilder(n, <<r>>, pol) :
        n \in {"g1", "g2"},
        r \in {ExactRule(<<"a">>), PrefixRule(<<"a">>), ExactRule(<<"b">>)},
        pol \in {NilPolicy, Policy(NilRateLimit, FALSE),
                 Policy(RateLimitRule(1, 1), FALSE), Policy(RateLimitRule(2, 1), FALSE)}}

\* the two interceptors share the limiter's pointer
GroupedShared(lane, m, v) ==
    /\ global' = v.global
    /\ rlState' = [l \in Lanes |-> [rlState[l] EXCEPT !.groups = v.groups]]
    /\ results' = Append(results,
            [lane |-> lane, method |-> m, at |-> now, handled |-> v.ok])

\* the interceptor of a lane has answered v for method m and the call has
\* returned: each interceptor has a rateLimitState of its own
Grouped(lane, m, v) ==
    /\ global' = v.global
    /\ rlState' = [rlState EXCEPT ![lane].groups = v.groups]
    /\ results' = Append(results,
            [lane |-> lane, method |-> m, at |-> now, handled |-> v.ok])

\* one call of the interceptor returned by RateLimitUnary or RateLimitStream
CallGrouped ==
    /\ Len(results) < MaxPolicyCalls
    /\ \E lane \in Lanes, m \in ServerMethods :
        Grouped(lane, m, RateLimitVerdict(rlState[lane], global, m, now))
    /\ UNCHANGED <<cfgVars, runVars, now, ipBlocker, resolver, lookups, directVars, concVars, moreVars>>

\* l := ratelimit.NewLimiter(rps, burst), then RateLimitUnary(l, r) and
\* RateLimitStream(l, r)
InitPolicyLimit ==
    /\ EmptyConfig /\ IdleRun /\ NoLibraryUse
    /\ now = 0
    /\ global = NewLimiter(0, PolicyBurst, 0)
    /\ \E g \in PolicyGroups, h \in PolicyGroups :
        rlState = [l \in Lanes |-> rateLimitState(NewResolver(<<g, h>>))]
    /\ ipBlocker = NoBlocker

NextPolicyLimit == CallGrouped

SpecPolicyLimit == InitPolicyLimit /\ [][NextPolicyLimit]_vars

-----------------------------------------------------------------------------
(* SpecIPBlock: an IPBlocker made by NewIPBlocker, and a call of the
   interceptor returned by IPBlockUnary or IPBlockStream over it, made
   directly with a handler that succeeds. Evaluate keeps no state, so one
   call stands for every call *)

\* how many prefixes Config.CIDRs holds
MaxCidrs == 2
\* how many prefixes Config.TrustedProxies holds
MaxProxies == 1
\* how many comma-separated parts the forwarding headers of a request hold
MaxParts == 2

Modes == {"AllowList", "DenyList"}

\* the prefixes over the addresses, each by its first address
Prefixes ==
    {p \in {Prefix(a, n) : a \in Addrs, n \in 0..AddrBits} :
        p.addr % 2^(AddrBits - p.bits) = 0}

\* the place of a prefix among the prefixes: shorter first, then by address
PrefixRank(p) == p.bits * 2^AddrBits + p.addr

\* Config.CIDRs (each set of prefixes once, in the order of their ranks),
\* Config.TrustedProxies (the whole range or a half of it) and
\* Config.HeaderPriority
CidrLists ==
    {l \in ListsOver(Prefixes, MaxCidrs) :
        \A i \in 1..(Len(l) - 1) : PrefixRank(l[i]) < PrefixRank(l[i + 1])}
ProxyLists == ListsOver({p \in Prefixes : p.bits <= 1}, MaxProxies)
HeaderPriorities == {<<>>, <<"x-forwarded-for">>}

Blockers ==
    {IPBlocker(mode, cidrs, proxies, hp) :
        mode \in Modes, cidrs \in CidrLists, proxies \in ProxyLists, hp \in HeaderPriorities}

Peers == {NoPeer, NilPeer, BadPeer} \cup {AddrPeer(a) : a \in Addrs}

\* the comma-separated parts a header value may hold
Toks == {EmptyTok, BadTok} \cup {AddrTok(a) : a \in Addrs}

\* the header values of up to n parts
PartSeqs(n) == UNION {[1..k -> Toks] : k \in 1..n}

\* the value lists of one header that hold up to n parts in all
RECURSIVE ValuesWith(_)
ValuesWith(n) ==
    IF n = 0 THEN {<<>>}
    ELSE {<<>>} \cup
         UNION {{<<ps>> \o rest : rest \in ValuesWith(n - Len(ps))} : ps \in PartSeqs(n)}

RECURSIVE PartCount(_)
PartCount(vals) == IF vals = <<>> THEN 0 ELSE Len(Head(vals)) + PartCount(Tail(vals))

\* the metadata of a request: up to MaxParts parts over the two headers
Metadatas ==
    UNION {{[k \in HeaderKeys |-> IF k = "x-real-ip" THEN v1 ELSE v2] :
               v2 \in ValuesWith(MaxParts - PartCount(v1))} : v1 \in ValuesWith(MaxParts)}

\* what the interceptor did with request r: what Evaluate said, whether the
\* handler was invoked, and the error the caller got
Blocked(b, r, o) ==
    [lane |-> r.lane, peer |-> r.peer, md |-> r.md,
     allowed |-> Evaluate(b, r.peer, r.md),
     handled |-> o.act = "next",
     err |-> o.res.err]

BlockedCall(b, r) == Blocked(b, r, IPBlockEnter(b, r, NoCtx))

\* one call of the interceptor returned by IPBlockUnary or IPBlockStream
CallBlocked ==
    /\ ipCall = NoCall
    /\ \E lane \in Lanes, peer \in Peers, md \in Metadatas :
        ipCall' = BlockedCall(ipBlocker, Request(lane, <<>>, peer, md, ""))
    /\ UNCHANGED <<cfgVars, runVars, gateVars, resolver, lookups, results, gateCalls, concVars, moreVars>>

\* security.NewIPBlocker(cfg), then IPBlockUnary(b) and IPBlockStream(b)
InitIPBlock ==
    /\ EmptyConfig /\ IdleRun /\ NoLibraryUse
    /\ now = 0
    /\ global = NoLimiter
    /\ rlState = [l \in Lanes |-> rateLimitState(NilResolver)]
    /\ ipBlocker \in Blockers

NextIPBlock == CallBlocked

SpecIPBlock == InitIPBlock /\ [][NextIPBlock]_vars

-----------------------------------------------------------------------------
(* SpecGates: the interceptors returned by AuthUnary, AuthStream,
   RequestIDUnary and RequestIDStream, called directly with a handler that
   succeeds *)

\* how many calls are made
MaxGateCalls == 2

\* the contexts the calls come with: with or without a request ID
IncomingCtxs == {[rid |-> rid, actor |-> ""] : rid \in IncomingIDs}

\* the error of the AuthFunc, by what it chose to do
AuthFuncErr(ch) ==
    IF ch = "status" THEN AuthStatusErr
    ELSE IF ch = "plain" THEN AuthPlainErr
    ELSE NoErr

\* what a call did: the context it came with, the choice of the stage, the
\* error of the AuthFunc, whether the handler was invoked and with which
\* context, and the error the caller got
GateOutcome(kind, lane, ctx, ch, o) ==
    [kind |-> kind, lane |-> lane, given |-> ctx, ch |-> ch,
     fnErr |-> IF kind = "auth" THEN AuthFuncErr(ch) ELSE NoErr,
     handled |-> o.act = "next",
     ctx |-> o.ctx,
     err |-> o.res.err]

\* one call of the interceptor returned by AuthUnary or AuthStream
CallAuth ==
    /\ Len(gateCalls) < MaxGateCalls
    /\ \E lane \in Lanes, ctx \in IncomingCtxs :
        \E ch \in StageChoices(Stage(0, "auth"), lane, ctx) :
            gateCalls' = Append(gateCalls,
                GateOutcome("auth", lane, ctx, ch, AuthEnter(lane, ch, ctx)))
    /\ UNCHANGED <<cfgVars, runVars, gateVars, resolver, lookups, results, ipCall, concVars, moreVars>>

\* one call of the interceptor returned by RequestIDUnary or RequestIDStream
CallRequestID ==
    /\ Len(gateCalls) < MaxGateCalls
    /\ \E lane \in Lanes, ctx \in IncomingCtxs :
        \E ch \in StageChoices(Stage(0, "requestid"), lane, ctx) :
            gateCalls' = Append(gateCalls,
                GateOutcome("requestid", lane, ctx, ch, RequestIDEnter(lane, ch, ctx)))
    /\ UNCHANGED <<cfgVars, runVars, gateVars, resolver, lookups, results, ipCall, concVars, moreVars>>

InitGates == EmptyConfig /\ IdleRun /\ NoGates /\ NoLibraryUse

NextGates == CallAuth \/ CallRequestID

SpecGates == InitGates /\ [][NextGates]_vars

-----------------------------------------------------------------------------
(* SpecConcurrent: the interceptor returned by RateLimitUnary over a global
   limiter and a resolver, called by several goroutines at once, each with
   one request and a handler that succeeds. A step of a goroutine is one
   access to what the goroutines share; no time passes *)

\* how many goroutines call the interceptor
MaxProcs == 3

Procs == 1..MaxProcs

\* a mutex that lets everybody in
CanLockAlways(holder) == TRUE

\* st.mu, a sync.Mutex: Lock goes on when nobody holds the mutex
CanLock(holder) == holder = 0

\* a limiter that lets a second goroutine in before the first has left
CanAllowAlways(holder) == TRUE

\* the rate.Limiter serialises the calls of Allow: one goroutine at a time
CanAllow(holder) == holder = 0

\* goroutine p moves on with the local values r
Moves(p, r) == procs' = [procs EXCEPT ![p] = r]

\* limiterFor up to its return or its call of groupLimiter, given what
\* Resolve returned: the global limiter, or the group to look up; cached
\* notes, for the record, whether the cache held the group at that moment
Chosen(q, m, rr) ==
    IF rr.ok /\ ~rr.pol.isNil /\ ~rr.pol.RateLimit.isNil
    THEN [q EXCEPT !.pc = "lock", !.method = m, !.name = rr.groupName,
                   !.rl = rr.pol.RateLimit,
                   !.cached = rr.groupName \in DOMAIN stGroups]
    ELSE [q EXCEPT !.pc = "allow", !.method = m, !.lim = 1]

\* a request arrives: st.limiterFor(info.FullMethod) resolves the method
limiterForCall ==
    /\ \E p \in Procs, m \in ServerMethods :
        /\ procs[p].pc = "idle"
        /\ Moves(p, Chosen(procs[p], m, Resolve(rlState["unary"].resolver.groups, m)))
    /\ UNCHANGED <<cfgVars, runVars, gateVars, resolver, lookups, results, directVars, moreVars,
                   stMu, stGroups, limiters>>

\* groupLimiter: st.mu.Lock()
groupLimiterLock ==
    /\ \E p \in Procs :
        /\ procs[p].pc = "lock"
        /\ CanLock(stMu)
        /\ stMu' = p
        /\ Moves(p, [procs[p] EXCEPT !.pc = "lookup"])
    /\ UNCHANGED <<cfgVars, runVars, gateVars, resolver, lookups, results, directVars, moreVars,
                   stGroups, limiters>>

\* groupLimiter: if l, ok := st.groups[name]; ok { return l }
groupLimiterLookup ==
    /\ \E p \in Procs :
        /\ procs[p].pc = "lookup"
        /\ Moves(p, IF procs[p].name \in DOMAIN stGroups
                    THEN [procs[p] EXCEPT !.pc = "unlock", !.lim = stGroups[procs[p].name]]
                    ELSE [procs[p] EXCEPT !.pc = "create"])
    /\ UNCHANGED <<cfgVars, runVars, gateVars, resolver, lookups, results, directVars, moreVars,
                   stMu, stGroups, limiters>>

\* groupLimiter: l := ratelimit.NewLimiter(...); st.groups[name] = l
groupLimiterCreate ==
    /\ \E p \in Procs :
        /\ procs[p].pc = "create"
        /\ limiters' = Append(limiters,
               Shared(procs[p].name,
                      NewLimiter(GroupLimit(procs[p].rl), procs[p].rl.Rate, now)))
        /\ stGroups' = (procs[p].name :> (Len(limiters) + 1)) @@ stGroups
        /\ Moves(p, [procs[p] EXCEPT !.pc = "unlock", !.lim = Len(limiters) + 1])
    /\ UNCHANGED <<cfgVars, runVars, gateVars, resolver, lookups, results, directVars, moreVars, stMu>>

\* groupLimiter returns: the deferred st.mu.Unlock()
groupLimiterUnlock ==
    /\ \E p \in Procs :
        /\ procs[p].pc = "unlock"
        /\ stMu' = 0
        /\ Moves(p, [procs[p] EXCEPT !.pc = "allow"])
    /\ UNCHANGED <<cfgVars, runVars, gateVars, resolver, lookups, results, directVars, moreVars,
                   stGroups, limiters>>

\* Limiter.Allow: the rate.Limiter takes its own lock
AllowLock ==
    /\ \E p \in Procs :
        /\ procs[p].pc = "allow"
        /\ CanAllow(limiters[procs[p].lim].mu)
        /\ limiters' = [limiters EXCEPT ![procs[p].lim].mu = p]
        /\ Moves(p, [procs[p] EXCEPT !.pc = "read"])
    /\ UNCHANGED <<cfgVars, runVars, gateVars, resolver, lookups, results, directVars, moreVars,
                   stMu, stGroups>>

\* Limiter.Allow: the tokens and the time of the last call are read
AllowRead ==
    /\ \E p \in Procs :
        /\ procs[p].pc = "read"
        /\ Moves(p, [procs[p] EXCEPT !.pc = "write", !.seen = limiters[procs[p].lim].lim])
    /\ UNCHANGED <<cfgVars, runVars, gateVars, resolver, lookups, results, directVars, moreVars,
                   stMu, stGroups, limiters>>

\* goroutine p writes back what Allow made of the state it read
Written(p, a) ==
    /\ limiters' = [limiters EXCEPT ![procs[p].lim].lim = a.lim]
    /\ Moves(p, [procs[p] EXCEPT !.pc = "return", !.ok = a.ok])

\* Limiter.Allow: the tokens left and the time are written, the answer is known
AllowWrite ==
    /\ \E p \in Procs :
        /\ procs[p].pc = "write"
        /\ Written(p, Allow(procs[p].seen, now))
    /\ UNCHANGED <<cfgVars, runVars, gateVars, resolver, lookups, results, directVars, moreVars,
                   stMu, stGroups>>

\* Limiter.Allow returns and unlocks; the interceptor returns errRateLimited
\* or calls the handler
AllowReturn ==
    /\ \E p \in Procs :
        /\ procs[p].pc = "return"
        /\ limiters' = [limiters EXCEPT ![procs[p].lim].mu = 0]
        /\ Moves(p, [procs[p] EXCEPT !.pc = "done",
                                     !.out = RateLimitEnter(procs[p].ok, NoCtx)])
    /\ UNCHANGED <<cfgVars, runVars, gateVars, resolver, lookups, results, directVars, moreVars,
                   stMu, stGroups>>

\* ratelimit.NewLimiter, then RateLimitUnary(l, resolver); nobody has called yet
InitConcurrent ==
    /\ EmptyConfig /\ IdleRun
    /\ resolver = NilResolver /\ lookups = <<>> /\ results = <<>>
    /\ ipCall = NoCall /\ gateCalls = <<>>
    /\ NoCacheUse /\ NoBreakerUse /\ NoRetryUse
    /\ now = 0
    /\ global = NoLimiter
    /\ rlState = [l \in Lanes |-> rateLimitState(ServerResolver)]
    /\ ipBlocker = NoBlocker
    /\ procs = [p \in Procs |-> IdleProc]
    /\ stMu = 0
    /\ stGroups = NoGroups
    /\ limiters = <<Shared("", NewLimiter(ServerLimit, ServerBurst, 0))>>

NextConcurrent ==
    \/ limiterForCall \/ groupLimiterLock \/ groupLimiterLookup \/ groupLimiterCreate
    \/ groupLimiterUnlock \/ AllowLock \/ AllowRead \/ AllowWrite \/ AllowReturn

SpecConcurrent == InitConcurrent /\ [][NextConcurrent]_vars

-----------------------------------------------------------------------------
(* SpecCache: GetOrSet of an L1 or of a Tiered cache, called by several
   goroutines at once for one key that is not cached. A step of a goroutine
   is one access to the cache layers or one critical section under mu *)

CacheKinds == {"L1", "Tiered"}

\* a goroutine that has just called GetOrSet
NewCaller == [pc |-> "get", c |-> 0, val |-> NoValue, err |-> FALSE]

\* c := &call{}; c.wg.Add(1)
NewCall == [done |-> FALSE, val |-> NoValue, err |-> FALSE]

\* what the loader may return at its n-th invocation: a value of its own, or
\* an error
LoaderOutcomes(n) == {[val |-> n, err |-> FALSE], [val |-> NoValue, err |-> TRUE]}

\* goroutine p goes on with the local values r
Goes(p, r) == callers' = [callers EXCEPT ![p] = r]

\* l.Get / t.l1.Get: a hit returns the value, a miss goes on
GetOrSetGetL1 ==
    /\ \E p \in Procs :
        /\ callers[p].pc = "get"
        /\ Goes(p, IF rc # NoValue THEN [callers[p] EXCEPT !.pc = "done", !.val = rc]
                   ELSE IF cacheKind = "Tiered" THEN [callers[p] EXCEPT !.pc = "getl2"]
                   ELSE [callers[p] EXCEPT !.pc = "enter"])
    /\ UNCHANGED <<cfgVars, runVars, gateVars, resolver, lookups, results, directVars,
                   concVars, breakerVars, retryDo,
                   cacheKind, rc, l2, loads, calls, loaderRuns>>

\* Tiered: t.l2.Get
GetOrSetGetL2 ==
    /\ \E p \in Procs :
        /\ callers[p].pc = "getl2"
        /\ Goes(p, IF l2 # NoValue THEN [callers[p] EXCEPT !.pc = "promote", !.val = l2]
                   ELSE [callers[p] EXCEPT !.pc = "enter"])
    /\ UNCHANGED <<cfgVars, runVars, gateVars, resolver, lookups, results, directVars,
                   concVars, breakerVars, retryDo,
                   cacheKind, rc, l2, loads, calls, loaderRuns>>

\* Tiered: the L2 hit is promoted to L1 and returned
GetOrSetPromote ==
    /\ \E p \in Procs :
        /\ callers[p].pc = "promote"
        /\ rc' = callers[p].val
        /\ Goes(p, [callers[p] EXCEPT !.pc = "done"])
    /\ UNCHANGED <<cfgVars, runVars, gateVars, resolver, lookups, results, directVars,
                   concVars, breakerVars, retryDo,
                   cacheKind, l2, loads, calls, loaderRuns>>

\* mu.Lock(); a call in flight is joined, or a new call is registered;
\* mu.Unlock()
GetOrSetEnter ==
    /\ \E p \in Procs :
        /\ callers[p].pc = "enter"
        /\ IF loads # 0
           THEN /\ Goes(p, [callers[p] EXCEPT !.pc = "wait", !.c = loads])
                /\ UNCHANGED <<loads, calls>>
           ELSE /\ calls' = Append(calls, NewCall)
                /\ loads' = Len(calls) + 1
                /\ Goes(p, [callers[p] EXCEPT !.pc = "load", !.c = Len(calls) + 1])
    /\ UNCHANGED <<cfgVars, runVars, gateVars, resolver, lookups, results, directVars,
                   concVars, breakerVars, retryDo,
                   cacheKind, rc, l2, loaderRuns>>

\* c.wg.Wait() returns: the waiter returns what the call holds
GetOrSetWait ==
    /\ \E p \in Procs :
        /\ callers[p].pc = "wait"
        /\ calls[callers[p].c].done
        /\ Goes(p, [callers[p] EXCEPT !.pc = "done",
                                      !.val = calls[callers[p].c].val,
                                      !.err = calls[callers[p].c].err])
    /\ UNCHANGED <<cfgVars, runVars, gateVars, resolver, lookups, results, directVars,
                   concVars, breakerVars, retryDo,
                   cacheKind, rc, l2, loads, calls, loaderRuns>>

\* goroutine p got o from the loader
Loaded(p, o) ==
    /\ loaderRuns' = Append(loaderRuns, o)
    /\ calls' = [calls EXCEPT ![callers[p].c].val = o.val, ![callers[p].c].err = o.err]
    /\ Goes(p, [callers[p] EXCEPT !.pc = IF o.err THEN "release"
                                          ELSE IF cacheKind = "Tiered" THEN "setl2"
                                          ELSE "setl1"])

\* c.val, c.err = loader(ctx)
GetOrSetLoad ==
    /\ \E p \in Procs :
        /\ callers[p].pc = "load"
        /\ \E o \in LoaderOutcomes(Len(loaderRuns) + 1) : Loaded(p, o)
    /\ UNCHANGED <<cfgVars, runVars, gateVars, resolver, lookups, results, directVars,
                   concVars, breakerVars, retryDo,
                   cacheKind, rc, l2, loads>>

\* Tiered: t.l2.Set
GetOrSetSetL2 ==
    /\ \E p \in Procs :
        /\ callers[p].pc = "setl2"
        /\ l2' = calls[callers[p].c].val
        /\ Goes(p, [callers[p] EXCEPT !.pc = "setl1"])
    /\ UNCHANGED <<cfgVars, runVars, gateVars, resolver, lookups, results, directVars,
                   concVars, breakerVars, retryDo,
                   cacheKind, rc, loads, calls, loaderRuns>>

\* l.Set / t.l1.Set
GetOrSetSetL1 ==
    /\ \E p \in Procs :
        /\ callers[p].pc = "setl1"
        /\ rc' = calls[callers[p].c].val
        /\ Goes(p, [callers[p] EXCEPT !.pc = "release"])
    /\ UNCHANGED <<cfgVars, runVars, gateVars, resolver, lookups, results, directVars,
                   concVars, breakerVars, retryDo,
                   cacheKind, l2, loads, calls, loaderRuns>>

\* c.wg.Done()
GetOrSetRelease ==
    /\ \E p \in Procs :
        /\ callers[p].pc = "release"
        /\ calls' = [calls EXCEPT ![callers[p].c].done = TRUE]
        /\ Goes(p, [callers[p] EXCEPT !.pc = "forget"])
    /\ UNCHANGED <<cfgVars, runVars, gateVars, resolver, lookups, results, directVars,
                   concVars, breakerVars, retryDo,
                   cacheKind, rc, l2, loads, loaderRuns>>

\* mu.Lock(); delete(loads, key); mu.Unlock(); the loading goroutine returns
GetOrSetForget ==
    /\ \E p \in Procs :
        /\ callers[p].pc = "forget"
        /\ loads' = 0
        /\ Goes(p, [callers[p] EXCEPT !.pc = "done",
                                      !.val = calls[callers[p].c].val,
                                      !.err = calls[callers[p].c].err])
    /\ UNCHANGED <<cfgVars, runVars, gateVars, resolver, lookups, results, directVars,
                   concVars, breakerVars, retryDo,
                   cacheKind, rc, l2, calls, loaderRuns>>

\* NewL1 or NewTiered; every goroutine has called GetOrSet for the key
InitCache ==
    /\ EmptyConfig /\ IdleRun /\ NoGates
    /\ resolver = NilResolver /\ lookups = <<>> /\ results = <<>>
    /\ ipCall = NoCall /\ gateCalls = <<>>
    /\ NoGoroutines /\ NoBreakerUse /\ NoRetryUse
    /\ cacheKind \in CacheKinds
    /\ rc = NoValue
    /\ l2 = NoValue
    /\ loads = 0
    /\ calls = <<>>
    /\ callers = [p \in Procs |-> NewCaller]
    /\ loaderRuns = <<>>

NextCache ==
    \/ GetOrSetGetL1 \/ GetOrSetGetL2 \/ GetOrSetPromote \/ GetOrSetEnter
    \/ GetOrSetWait \/ GetOrSetLoad \/ GetOrSetSetL2 \/ GetOrSetSetL1
    \/ GetOrSetRelease \/ GetOrSetForget

SpecCache == InitCache /\ [][NextCache]_vars

-----------------------------------------------------------------------------
(* SpecBreaker: one circuit breaker, its methods called in any order while
   the clock advances. Every method holds b.mu from its first statement to
   its return, so calls of concurrent goroutines take effect one at a time *)

MaxThreshold == 2
MaxOpenTimeout == 2
MaxProbes == 2
MaxBreakerCalls == 5
MaxClock == 3

\* Config values; thresholds below one are left out (with them the first
\* failure trips the breaker and the first success closes it)
Configs ==
    [FailureThreshold : 1..MaxThreshold,
     OpenTimeout : 1..MaxOpenTimeout,
     HalfOpenMaxSuccess : 1..MaxProbes]

\* New(cfg)
BreakerNew(cfg) ==
    [cfg |-> cfg, state |-> "Closed", failures |-> 0, successes |-> 0, openedAt |-> 0]

\* a check that waits for more than the timeout
checkOpenTimeoutLate(b, t) ==
    IF b.state = "Open" /\ t - b.openedAt > b.cfg.OpenTimeout
    THEN [b EXCEPT !.state = "HalfOpen", !.successes = 0]
    ELSE b

\* b.checkOpenTimeout() at time t
checkOpenTimeout(b, t) ==
    IF b.state = "Open" /\ t - b.openedAt >= b.cfg.OpenTimeout
    THEN [b EXCEPT !.state = "HalfOpen", !.successes = 0]
    ELSE b

\* a trip that keeps the time of the trip before
toOpenKeepsTime(b, t) == [b EXCEPT !.state = "Open", !.successes = 0]

\* b.toOpen() at time t
toOpen(b, t) == [b EXCEPT !.state = "Open", !.openedAt = t, !.successes = 0]

\* the switch of Allow, after checkOpenTimeout
allowSwitch(b) ==
    CASE b.state = "Closed" -> TRUE
      [] b.state = "HalfOpen" -> b.successes < b.cfg.HalfOpenMaxSuccess
      [] OTHER -> FALSE

\* the HalfOpen case of OnSuccess, the counter already incremented
closeIfProbed(b) ==
    IF b.successes >= b.cfg.HalfOpenMaxSuccess
    THEN [b EXCEPT !.state = "Closed", !.failures = 0, !.successes = 0]
    ELSE b

\* a switch whose Closed case keeps the failures counted so far
onSuccessKeepsFailures(b) ==
    CASE b.state = "HalfOpen" -> closeIfProbed([b EXCEPT !.successes = b.successes + 1])
      [] OTHER -> b

\* the switch of OnSuccess
onSuccessSwitch(b) ==
    CASE b.state = "Closed" -> [b EXCEPT !.failures = 0]
      [] b.state = "HalfOpen" -> closeIfProbed([b EXCEPT !.successes = b.successes + 1])
      [] OTHER -> b

\* the Closed case of OnFailure, the counter already incremented
tripIfFailing(b, t) ==
    IF b.failures >= b.cfg.FailureThreshold THEN toOpen(b, t) ELSE b

\* the switch of OnFailure at time t
onFailureSwitch(b, t) ==
    CASE b.state = "Closed" -> tripIfFailing([b EXCEPT !.failures = b.failures + 1], t)
      [] b.state = "HalfOpen" -> toOpen(b, t)
      [] OTHER -> b

\* the record of one call: the method, the state it found and the state it
\* left, what it returned, and the time
BreakerCall(op, b, b2, ret) ==
    [op |-> op, from |-> b.state, to |-> b2.state, ret |-> ret, at |-> now]

\* the call op took the breaker to b2 and returned ret
Called(op, b2, ret) ==
    /\ breaker' = b2
    /\ bcalls' = Append(bcalls, BreakerCall(op, breaker, b2, ret))

\* b.State()
BreakerState ==
    /\ Len(bcalls) < MaxBreakerCalls
    /\ Called("State", checkOpenTimeout(breaker, now), checkOpenTimeout(breaker, now).state)
    /\ UNCHANGED <<cfgVars, runVars, gateVars, resolver, lookups, results, directVars,
                   concVars, cacheVars, retryDo>>

\* b.Allow()
BreakerAllow ==
    /\ Len(bcalls) < MaxBreakerCalls
    /\ Called("Allow", checkOpenTimeout(breaker, now),
              allowSwitch(checkOpenTimeout(breaker, now)))
    /\ UNCHANGED <<cfgVars, runVars, gateVars, resolver, lookups, results, directVars,
                   concVars, cacheVars, retryDo>>

\* b.OnSuccess()
BreakerOnSuccess ==
    /\ Len(bcalls) < MaxBreakerCalls
    /\ Called("OnSuccess", onSuccessSwitch(breaker), "none")
    /\ UNCHANGED <<cfgVars, runVars, gateVars, resolver, lookups, results, directVars,
                   concVars, cacheVars, retryDo>>

\* b.OnFailure()
BreakerOnFailure ==
    /\ Len(bcalls) < MaxBreakerCalls
    /\ Called("OnFailure", onFailureSwitch(breaker, now), "none")
    /\ UNCHANGED <<cfgVars, runVars, gateVars, resolver, lookups, results, directVars,
                   concVars, cacheVars, retryDo>>

\* b.now() moves on between two calls
BreakerTick ==
    /\ now < MaxClock
    /\ now' = now + 1
    /\ UNCHANGED <<cfgVars, runVars, global, rlState, ipBlocker, libVars>>

InitBreaker ==
    /\ EmptyConfig /\ IdleRun /\ NoGates
    /\ resolver = NilResolver /\ lookups = <<>> /\ results = <<>>
    /\ ipCall = NoCall /\ gateCalls = <<>>
    /\ NoGoroutines /\ NoCacheUse /\ NoRetryUse
    /\ breaker \in {BreakerNew(cfg) : cfg \in Configs}
    /\ bcalls = <<>>

NextBreaker ==
    \/ BreakerState \/ BreakerAllow \/ BreakerOnSuccess \/ BreakerOnFailure
    \/ BreakerTick

SpecBreaker == InitBreaker /\ [][NextBreaker]_vars

-----------------------------------------------------------------------------
(* SpecRetry: one call of retry.Do. The goroutine that runs Do calls fn,
   decides, creates the timer and selects; the timer fires and the context
   becomes done on their own *)

MaxTries == 3
MaxBaseDelay == 1
MaxMaxDelay == 1

StatusCodes == {"Unavailable", "InvalidArgument"}

\* Config values, Jitter zero
RetryConfigs ==
    [MaxAttempts : 0..MaxTries,
     BaseDelay : 0..MaxBaseDelay,
     MaxDelay : 0..MaxMaxDelay,
     RetryCodes : {{}, {"Unavailable"}}]

\* what fn may return: a result, an error that carries a gRPC status, or an
\* error that carries none
FnOutcomes ==
    {[ok |-> TRUE, status |-> FALSE, code |-> "OK"],
     [ok |-> FALSE, status |-> FALSE, code |-> "Unknown"]}
    \cup {[ok |-> FALSE, status |-> TRUE, code |-> c] : c \in StatusCodes}

\* return zero, ctx.Err()
CtxErr == [ok |-> FALSE, status |-> FALSE, code |-> "ctx"]

\* attempts := max(cfg.MaxAttempts, 1)
attempts(cfg) == IF cfg.MaxAttempts > 1 THEN cfg.MaxAttempts ELSE 1

\* backoff(cfg, attempt) with cfg.Jitter = 0
backoff(cfg, attempt) == Min(cfg.BaseDelay * (2 ^ attempt), cfg.MaxDelay)

\* an error is retried whatever it carries
retryableAlways(cfg, o) == TRUE

\* st, ok := status.FromError(err); ok && slices.Contains(cfg.RetryCodes, st.Code())
retryable(cfg, o) == o.status /\ o.code \in cfg.RetryCodes

\* Do(ctx, cfg, fn) has been called; done tells whether ctx is done already
DoCalled(cfg, done) ==
    [cfg |-> cfg, pc |-> "call", i |-> 0, ctxDone |-> done, timer |-> FALSE,
     sel |-> FALSE, fnCalls |-> <<>>, ret |-> CtxErr]

\* Do returns o
Returns(r, o) == [r EXCEPT !.pc = "done", !.ret = o]

\* the body of the loop after fn returned o
AfterFn(r, o) ==
    IF o.ok THEN Returns(r, o)
    ELSE IF r.i = attempts(r.cfg) - 1 THEN Returns(r, o)
    ELSE IF ~retryable(r.cfg, o) THEN Returns(r, o)
    ELSE [r EXCEPT !.pc = "wait", !.timer = (backoff(r.cfg, r.i) = 0)]

\* the call of fn is logged with its outcome and with what the select before
\* it saw of the context
FnCalled(r, o) == [r EXCEPT !.fnCalls = Append(r.fnCalls, [out |-> o, ctxDone |-> r.sel])]

\* result, err := fn(ctx), and the checks that follow, up to time.NewTimer
DoCallFn ==
    /\ retryDo.pc = "call"
    /\ \E o \in FnOutcomes : retryDo' = AfterFn(FnCalled(retryDo, o), o)
    /\ UNCHANGED <<cfgVars, runVars, gateVars, resolver, lookups, results, directVars,
                   concVars, cacheVars, breakerVars>>

\* the timer's delay has passed
DoTimerFires ==
    /\ retryDo.pc = "wait"
    /\ ~retryDo.timer
    /\ retryDo' = [retryDo EXCEPT !.timer = TRUE]
    /\ UNCHANGED <<cfgVars, runVars, gateVars, resolver, lookups, results, directVars,
                   concVars, cacheVars, breakerVars>>

\* select: case <-timer.C; the loop goes on with the next attempt
DoSelectTimer ==
    /\ retryDo.pc = "wait"
    /\ retryDo.timer
    /\ retryDo' = [retryDo EXCEPT !.pc = "call", !.i = retryDo.i + 1,
                                  !.sel = retryDo.ctxDone]
    /\ UNCHANGED <<cfgVars, runVars, gateVars, resolver, lookups, results, directVars,
                   concVars, cacheVars, breakerVars>>

\* select: case <-ctx.Done(); return zero, ctx.Err()
DoSelectCtx ==
    /\ retryDo.pc = "wait"
    /\ retryDo.ctxDone
    /\ retryDo' = Returns(retryDo, CtxErr)
    /\ UNCHANGED <<cfgVars, runVars, gateVars, resolver, lookups, results, directVars,
                   concVars, cacheVars, breakerVars>>

\* the context is cancelled or its deadline passes while Do runs
DoCtxDone ==
    /\ retryDo.pc # "done"
    /\ ~retryDo.ctxDone
    /\ retryDo' = [retryDo EXCEPT !.ctxDone = TRUE]
    /\ UNCHANGED <<cfgVars, runVars, gateVars, resolver, lookups, results, directVars,
                   concVars, cacheVars, breakerVars>>

InitRetry ==
    /\ EmptyConfig /\ IdleRun /\ NoGates
    /\ resolver = NilResolver /\ lookups = <<>> /\ results = <<>>
    /\ ipCall = NoCall /\ gateCalls = <<>>
    /\ NoGoroutines /\ NoCacheUse /\ NoBreakerUse
    /\ retryDo \in {DoCalled(cfg, done) : cfg \in RetryConfigs, done \in BOOLEAN}

NextRetry ==
    \/ DoCallFn \/ DoTimerFires \/ DoSelectTimer \/ DoSelectCtx \/ DoCtxDone

SpecRetry == InitRetry /\ [][NextRetry]_vars

\* fn returns, the timer fires and the goroutine that runs Do is scheduled
SpecRetryLive ==
    /\ SpecRetry
    /\ WF_vars(DoCallFn) /\ WF_vars(DoTimerFires)
    /\ WF_vars(DoSelectTimer \/ DoSelectCtx)

-----------------------------------------------------------------------------
(* SpecBackoff: backoff called once, for a Config with or without Jitter;
   durations are whole time units, Jitter and the random number are
   fractions *)

\* the greatest BaseDelay and MaxDelay
MaxBackoffBase == 2
MaxBackoffCap == 4
\* the greatest attempt index
MaxAttemptIndex == 2
\* Jitter is j / JitterDen with j in 0..JitterDen: from 0 to 1
JitterDen == 2
\* rand.Float64() is n / RandDen with n in 0..RandDen - 1: from 0 up to 1
RandDen == 4

BackoffConfigs ==
    [BaseDelay : 0..MaxBackoffBase, MaxDelay : 0..MaxBackoffCap, Jitter : 0..JitterDen]

\* delay += delay * cfg.Jitter * (rand.Float64()*2 - 1), over the common
\* denominator JitterDen * RandDen
jitterNum(delay, j, n) == delay * JitterDen * RandDen + delay * j * (2 * n - RandDen)

\* if delay < 0 { delay = 0 }; time.Duration(delay) drops the fraction
durationOf(num) == IF num < 0 THEN 0 ELSE num \div (JitterDen * RandDen)

\* backoff(cfg, attempt), rand.Float64() returning n / RandDen: the jitter is
\* added to the delay already cut to MaxDelay
backoffJitter(cfg, attempt, n) ==
    IF cfg.Jitter > 0
    THEN durationOf(jitterNum(backoff(cfg, attempt), cfg.Jitter, n))
    ELSE backoff(cfg, attempt)

\* one call of backoff
CallBackoff ==
    /\ results = <<>>
    /\ \E cfg \in BackoffConfigs, attempt \in 0..MaxAttemptIndex, n \in 0..RandDen - 1 :
        results' = <<[cfg |-> cfg, attempt |-> attempt, rand |-> n,
                      delay |-> backoffJitter(cfg, attempt, n)]>>
    /\ UNCHANGED <<cfgVars, runVars, gateVars, resolver, lookups, directVars, concVars, moreVars>>

InitBackoff == EmptyConfig /\ IdleRun /\ NoGates /\ NoLibraryUse

NextBackoff == CallBackoff

SpecBackoff == InitBackoff /\ [][NextBackoff]_vars

-----------------------------------------------------------------------------
(* Properties of SpecBuilder *)

\* the ids of the stages whose first part ran, in the order in which they ran
RECURSIVE PreIds(_)
PreIds(t) ==
    IF t = <<>> THEN <<>>
    ELSE (IF Head(t).ev = "pre" THEN <<Head(t).id>> ELSE <<>>) \o PreIds(Tail(t))

\* the ids of the stages that returned normally, in the order in which they did
RECURSIVE PostIds(_)
PostIds(t) ==
    IF t = <<>> THEN <<>>
    ELSE (IF Head(t).ev = "post" THEN <<Head(t).id>> ELSE <<>>) \o PostIds(Tail(t))

HandlerRuns(t) == Cardinality({i \in 1..Len(t) : t[i].ev = "handler"})

IdsOf(ics) == [i \in 1..Len(ics) |-> ics[i].id]
Reverse(q) == [i \in 1..Len(q) |-> q[Len(q) + 1 - i]]

\* the Order under which the stage with this id was added
OrderOf(id) ==
    LET i == CHOOSE k \in 1..Len(entries) :
                 entries[k].Unary.id = id \/ entries[k].Stream.id = id
    IN entries[i].Order

\* the ids of the entries that hold an interceptor for the lane
LaneIds(lane) ==
    {LaneIc(entries[k], lane).id : k \in {j \in 1..Len(entries) : LaneIc(entries[j], lane).kind # "nil"}}

\* stage a runs before stage b: lower Order first, and among equal Orders the
\* one added first
Before(a, b) == OrderOf(a) < OrderOf(b) \/ (OrderOf(a) = OrderOf(b) /\ a < b)

\* C1: whatever the order of the Add calls, the stages of a request run in
\* non-decreasing Order, those of equal Order in the order in which they were
\* added, and a request that reaches the handler has passed every stage of
\* its lane
C1_StagesRunInPriorityOrder ==
    /\ \A i, j \in 1..Len(PreIds(trace)) :
           i < j => Before(PreIds(trace)[i], PreIds(trace)[j])
    /\ HandlerRuns(trace) > 0 =>
           {PreIds(trace)[i] : i \in 1..Len(PreIds(trace))} = LaneIds(req.lane)

\* three stages reached the handler, two of them of equal Order, and one of
\* them ran before a stage that was added before it
C1_Witness ==
    /\ HandlerRuns(trace) = 1
    /\ Len(PreIds(trace)) = 3
    /\ \E i, j \in 1..3 : i < j /\ PreIds(trace)[i] > PreIds(trace)[j]
    /\ \E i, j \in 1..3 : i < j /\ OrderOf(PreIds(trace)[i]) = OrderOf(PreIds(trace)[j])

\* C3: when every stage of the chain called its continuation and nothing
\* panicked, the first parts ran in index order, then the handler once, then
\* the remaining parts in reverse index order, and the chain returned what
\* its first stage returned
C3_OnionOrder ==
    (Done /\ res.panic = NoPanic /\ HandlerRuns(trace) > 0) =>
        /\ PreIds(trace) = IdsOf(ChainOf(req.lane).ics)
        /\ HandlerRuns(trace) = 1
        /\ trace[Len(ChainOf(req.lane).ics) + 1].ev = "handler"
        /\ PostIds(trace) = Reverse(IdsOf(ChainOf(req.lane).ics))
        /\ Len(trace) = 2 * Len(ChainOf(req.lane).ics) + 1
        /\ Len(ChainOf(req.lane).ics) > 0 => res = s0ret

\* a chain of three stages returned from the handler
C3_Witness ==
    /\ Done
    /\ res.panic = NoPanic
    /\ HandlerRuns(trace) = 1
    /\ Len(ChainOf(req.lane).ics) = 3
    /\ res.resp = <<0, ChainOf(req.lane).ics[3].id, ChainOf(req.lane).ics[2].id,
                    ChainOf(req.lane).ics[1].id>>

-----------------------------------------------------------------------------
(* Properties of Spec *)

\* the stages whose first part ran, in the order in which they ran
RECURSIVE PreStages(_)
PreStages(t) ==
    IF t = <<>> THEN <<>>
    ELSE (IF Head(t).ev = "pre" THEN <<[id |-> Head(t).id, kind |-> Head(t).kind]>> ELSE <<>>)
         \o PreStages(Tail(t))

\* the place of a stage in the documented order of the pipeline
Rank(kind) ==
    IF kind = "recovery" THEN 1
    ELSE IF kind = "ipblock" THEN 2
    ELSE IF kind = "ratelimit" THEN 3
    ELSE IF kind = "auth" THEN 4
    ELSE IF kind = "requestid" THEN 5
    ELSE 6

\* stage a is documented to run before stage b; user interceptors run in the
\* order in which they were supplied
RunsBefore(a, b) == Rank(a.kind) < Rank(b.kind) \/ (a.kind = "user" /\ b.kind = "user" /\ a.id < b.id)

\* the unary interceptors the options registered
UnaryStages == {entries[k].Unary : k \in {j \in 1..Len(entries) : entries[j].Unary.kind # "nil"}}

HandlerAt(t) == CHOOSE i \in 1..Len(t) : t[i].ev = "handler"

\* the stages ps ran in the documented order, and they are the stages of S
RanInOrder(ps, S) ==
    /\ \A i, j \in 1..Len(ps) : i < j => RunsBefore(ps[i], ps[j])
    /\ {ps[i] : i \in 1..Len(ps)} = S

\* no stage of trace t started after position h
NoneAfter(t, h) == \A i \in 1..Len(t) : t[i].ev = "pre" => i < h

\* C2: whatever the order of the options, a unary request that reaches the
\* handler has passed recovery, IP admission, rate limiting, authentication,
\* request tagging and the user interceptors, in that order and the user
\* interceptors in the order supplied, each configured stage once and all of
\* them before the handler
C2_FixedStageOrder ==
    (phase = "serving" /\ req.lane = "unary" /\ HandlerRuns(trace) > 0) =>
        /\ RanInOrder(PreStages(trace), UnaryStages)
        /\ NoneAfter(trace, HandlerAt(trace))

\* a server whose options did not come in priority order, with all five
\* gates and two user interceptors, has passed a unary request to the handler
C2_Witness ==
    /\ phase = "serving"
    /\ ~optsSorted
    /\ req.lane = "unary"
    /\ HandlerRuns(trace) = 1
    /\ [i \in 1..Len(PreStages(trace)) |-> PreStages(trace)[i].kind]
           = <<"recovery", "ipblock", "ratelimit", "auth", "requestid", "user", "user">>

\* C4: once the check of the IP, rate-limit or authentication gate has
\* failed, no further stage and not the handler runs for the request, on
\* either lane
C4_RejectionShortCircuits ==
    \A i \in 1..Len(trace) :
        (trace[i].ev = "refused" /\ trace[i].kind \in {"ipblock", "ratelimit", "auth"}) =>
            \A j \in 1..Len(trace) : j > i => trace[j].ev \notin {"pre", "handler"}

\* a streaming request was turned away by the rate limiter of a server that
\* also has the authentication gate behind it, and the call has returned
C4_Witness ==
    /\ Done
    /\ req.lane = "stream"
    /\ \E i \in 1..Len(trace) : trace[i].ev = "refused" /\ trace[i].kind = "ratelimit"
    /\ \E k \in 1..Len(streamInt.ics) : streamInt.ics[k].kind = "auth"
    /\ \E k \in 1..Len(streamInt.ics) : streamInt.ics[k].kind = "user"
    /\ res.err = errRateLimited

\* the recovery stage is about to return to its caller
RecoveryReturns == pc = "ret" /\ Len(stack) > 0 /\ stack[Len(stack)].kind = "recovery"

\* C5: when the continuation of the recovery stage panicked, with whatever
\* value, the stage returns a nil response and the Internal error with the
\* fixed message and no panic; when it did not panic, the stage returns the
\* response and error it got
C5_RecoveryContainsPanics ==
    [][RecoveryReturns =>
         IF res.panic # NoPanic
         THEN res' = Result(NilResp, errInternal)
         ELSE res' = res]_vars

\* the handler panicked, the recovery stage caught the panic, and the caller
\* got a nil response with the Internal error
C5_Witness ==
    /\ Done
    /\ \E i \in 1..Len(trace) : trace[i].ev = "recovered"
    /\ \E i \in 1..Len(trace) : trace[i].ev = "handler"
    /\ res = Result(NilResp, errInternal)

\* the rate-limit interceptor of the lane, which holds a resolver, is about
\* to be invoked
RateLimitCall ==
    /\ pc = "call"
    /\ Len(cont) > 0
    /\ Head(cont).kind = "ratelimit"
    /\ ~rlState[req.lane].resolver.isNil

\* what the resolver rr of the interceptor says about the method
Governing(rr) == rr.ok /\ ~rr.pol.isNil /\ ~rr.pol.RateLimit.isNil

\* limiter l holds a token now
HasToken(l) == Advance(l, now) >= TokenUnit

\* the step of the interceptor for a method of group rr: the global limiter
\* keeps its state and the group's limiter alone decides
GroupDecides(lane, rr) ==
    /\ global' = global
    /\ (pc' = "call") = HasToken(groupLimiter(rlState[lane], rr.groupName, rr.pol.RateLimit, now))

\* the step of the interceptor for a method of no group: the group limiters
\* keep their state and the global limiter alone decides
GlobalDecides ==
    /\ rlState' = rlState
    /\ (pc' = "call") = HasToken(global)

FrameOf(lane, rr) == IF Governing(rr) THEN GroupDecides(lane, rr) ELSE GlobalDecides

\* C11: with a resolver in the interceptor, a request for a method of a group
\* with a RateLimit rule is admitted or rejected by the limiter of that group
\* and leaves the global limiter as it was; a request for any other method
\* is admitted or rejected by the global limiter and leaves every group
\* limiter as it was
C11_GroupLimiterOverridesGlobal ==
    [][RateLimitCall =>
         FrameOf(req.lane, Resolve(rlState[req.lane].resolver.groups, req.method))]_vars

\* the global limiter is empty, and a request for a method of the group has
\* just been admitted by the rate-limit interceptor
C11_Witness ==
    /\ pc = "call"
    /\ req.lane \in Lanes
    /\ ~rlState[req.lane].resolver.isNil
    /\ req.method = <<"a">>
    /\ global.tokens = 0
    /\ Len(trace) > 0
    /\ trace[Len(trace)].ev = "pre"
    /\ trace[Len(trace)].kind = "ratelimit"
    /\ "g1" \in DOMAIN rlState[req.lane].groups

\* the rate-limit interceptor of a server that was given a resolver is about
\* to be invoked
ConfiguredRateLimitCall ==
    /\ pc = "call" /\ Len(cont) > 0 /\ Head(cont).kind = "ratelimit"
    /\ ~cfgResolver.isNil

\* C12: a server given both WithResolver and WithRateLimitGlobal decides a
\* request as the resolver's groups say, whichever of the two options came
\* first: a method in a group with a RateLimit policy is decided by that
\* group's limiter and leaves the global limiter alone, any other method is
\* decided by the global limiter.
C12_OptionOrderIrrelevant ==
    [][ConfiguredRateLimitCall =>
         FrameOf(req.lane, Resolve(cfgResolver.groups, req.method))]_vars

\* the tokens taken from limiter l so far (the limiters of the server do
\* not refill while the clock stands)
Spent(l) == l.burst * TokenUnit - l.tokens

\* the tokens taken from the limiters of the groups ns
RECURSIVE SpentOf(_, _)
SpentOf(groups, ns) ==
    IF ns = {} THEN 0
    ELSE Spent(groups[CHOOSE n \in ns : TRUE])
         + SpentOf(groups, ns \ {CHOOSE n \in ns : TRUE})

\* the tokens taken from all limiters of the server
TotalSpent ==
    Spent(global)
    + SpentOf(rlState["unary"].groups, DOMAIN rlState["unary"].groups)
    + SpentOf(rlState["stream"].groups, DOMAIN rlState["stream"].groups)

\* the chain of the lane holds a stage of the kind
HasStage(lane, kind) ==
    \E k \in 1..Len(ChainOf(lane).ics) : ChainOf(lane).ics[k].kind = kind

\* the IP gate has turned the request down
IPRefused == \E i \in 1..Len(trace) : trace[i].ev = "refused" /\ trace[i].kind = "ipblock"

\* the IP gate has run for the request and let it pass
IPPassed == ~IPRefused /\ \E i \in 1..Len(trace) : trace[i].ev = "pre" /\ trace[i].kind = "ipblock"

\* the step in which the rate-limit stage admits the request
RateLimitAdmits ==
    /\ pc = "call" /\ Len(cont) > 0 /\ Head(cont).kind = "ratelimit"
    /\ pc' = "call"

\* C30: on a server with the IP gate and the rate limiter, the tokens taken
\* from the limiters change only when the rate-limit stage admits a request
\* that has passed the IP gate, and then by one token; every other step, the
\* rejection by the IP gate and all that follows it included, leaves the
\* token counts as they are.
C30_BlockedRequestsTakeNoToken ==
    [][(phase = "serving" /\ HasStage(req.lane, "ipblock")) =>
         IF RateLimitAdmits
         THEN IPPassed /\ TotalSpent' = TotalSpent + TokenUnit
         ELSE TotalSpent' = TotalSpent]_vars

\* one token has been taken by an earlier request, and a request that the IP
\* gate turned down has returned on a lane that has the rate limiter too
C30_Witness ==
    /\ Done
    /\ IPRefused
    /\ HasStage(req.lane, "ratelimit")
    /\ res.err = errBlocked
    /\ TotalSpent = TokenUnit

\* C31: the nested continuations of a chain of two or more stages are
\* constructed once, when ChainUnary / ChainStream is called by NewServer:
\* handling a request goes through no loop over the stages and constructs no
\* continuation.
C31_ChainBuiltOnce == phase = "serving" => wraps = 0

\* the policy the server's resolver gives the method of the request says
\* AuthRequired
RequiresAuth ==
    /\ req.lane \in Lanes
    /\ ~cfgResolver.isNil
    /\ Resolve(cfgResolver.groups, req.method).pol.AuthRequired

\* the request has passed an auth stage whose AuthFunc accepted it
Authenticated ==
    /\ \E i \in 1..Len(trace) : trace[i].ev = "pre" /\ trace[i].kind = "auth"
    /\ ~\E i \in 1..Len(trace) : trace[i].ev = "refused" /\ trace[i].kind = "auth"

\* C37: a request for a method whose resolved Policy has AuthRequired set
\* reaches the handler only if it has been authenticated; otherwise it is
\* rejected.
C37_AuthRequiredEnforced ==
    (RequiresAuth /\ \E i \in 1..Len(trace) : trace[i].ev = "handler") => Authenticated

-----------------------------------------------------------------------------
(* Properties of SpecResolve *)

\* rule r is meant to match method m
RuleMatches(r, m) ==
    IF r.kind = kindExact THEN m = r.pattern
    ELSE IF r.kind = kindPrefix THEN HasPrefix(m, r.pattern)
    ELSE \E i \in 0..Len(m) : \E j \in i..Len(m) :
            /\ j - i >= Len(r.re.lit)
            /\ SubSeq(m, i + 1, i + Len(r.re.lit)) = r.re.lit
            /\ (r.re.anchored => i = 0)
            /\ (IF r.re.rest THEN j = Len(m) ELSE j - i = Len(r.re.lit))

\* the match length of a matching rule: the length of the pattern for exact
\* and prefix rules, the length of the matched span for regex rules
MatchLength(r, m) ==
    IF r.kind \in {kindExact, kindPrefix} THEN Len(r.pattern)
    ELSE FindStringIndex(r.re, m).hi - FindStringIndex(r.re, m).lo

\* the matching rules of the resolver, each as <<group index, rule index>>
MatchesOf(m) ==
    {p \in (1..Len(resolver.groups)) \X (1..MaxRules + 1) :
        /\ p[2] <= Len(resolver.groups[p[1]].rules)
        /\ RuleMatches(resolver.groups[p[1]].rules[p[2]], m)}

RuleAt(p) == resolver.groups[p[1]].rules[p[2]]

\* the rules of M of the strongest kind found in M
Strongest(M) == {p \in M : \A q \in M : RuleAt(p).kind <= RuleAt(q).kind}

\* the rules of M of the greatest match length found in M
Longest(M, m) ==
    {p \in M : \A q \in M : MatchLength(RuleAt(p), m) >= MatchLength(RuleAt(q), m)}

\* the matching rules of the strongest kind among those that match
OfBestKind(m) == Strongest(MatchesOf(m))

\* of those, the rules of the greatest match length
OfBestLength(m) == Longest(OfBestKind(m), m)

\* C6: when some rule matches the method, the group Resolve names owns a
\* matching rule of the strongest kind that matches at all (exact before
\* prefix before regex), whatever the order of the groups
C6_KindPrecedence ==
    \A k \in 1..Len(lookups) :
        MatchesOf(lookups[k].method) # {} =>
            /\ lookups[k].out.ok
            /\ \E p \in OfBestKind(lookups[k].method) :
                   resolver.groups[p[1]].name = lookups[k].out.groupName

\* a method matched a regex rule over its whole length in the first group and
\* a shorter prefix rule in the second, and Resolve named the second group
C6_Witness ==
    /\ Len(resolver.groups) = 2
    /\ \E k \in 1..Len(lookups) :
        /\ lookups[k].out.ok
        /\ lookups[k].out.groupName = "g2"
        /\ \E p \in MatchesOf(lookups[k].method) : p[1] = 1 /\ RuleAt(p).kind = kindRegex
                /\ MatchLength(RuleAt(p), lookups[k].method) = 2
        /\ \E p \in OfBestKind(lookups[k].method) : p[1] = 2 /\ RuleAt(p).kind = kindPrefix
                /\ MatchLength(RuleAt(p), lookups[k].method) = 1

\* C7: the group Resolve names owns a rule that has the greatest match
\* length among the matching rules of the strongest kind
C7_LongestMatchWins ==
    \A k \in 1..Len(lookups) :
        MatchesOf(lookups[k].method) # {} =>
            \E p \in OfBestLength(lookups[k].method) :
                resolver.groups[p[1]].name = lookups[k].out.groupName

\* two prefix rules of different lengths matched, the shorter one in the first
\* group, and Resolve named the second group
C7_Witness ==
    /\ Len(resolver.groups) = 2
    /\ \E k \in 1..Len(lookups) :
        /\ lookups[k].out.groupName = "g2"
        /\ \A p \in OfBestKind(lookups[k].method) : RuleAt(p).kind = kindPrefix
        /\ \E p \in OfBestKind(lookups[k].method) : p[1] = 1
        /\ \A p \in OfBestLength(lookups[k].method) : p[1] = 2

\* the earliest group that owns a rule of the best kind and length
EarliestBest(m) ==
    resolver.groups[SetMin({p[1] : p \in OfBestLength(m)})]

C9_NotFoundIffNoMatch ==
    \A k \in 1..Len(lookups) :
        /\ lookups[k].out.ok <=> MatchesOf(lookups[k].method) # {}
        /\ ~lookups[k].out.ok => (lookups[k].out.groupName = "" /\ lookups[k].out.pol = NilPolicy)

\* a resolver with rules in two groups was asked for a method none of them
\* matches, and for one that a rule matches
C9_Witness ==
    /\ Len(resolver.groups) = 2
    /\ \A i \in 1..2 : Len(resolver.groups[i].rules) > 0
    /\ \E k \in 1..Len(lookups) : ~lookups[k].out.ok
    /\ \E k \in 1..Len(lookups) : lookups[k].out.ok

-----------------------------------------------------------------------------
(* Properties of SpecResolveShared *)

\* C33: after NewResolver returns nothing the public API offers alters what
\* Resolve gives: two lookups of the same method name through one resolver
\* give the same result (found, group and policy).
C33_ResolveNeverChanges ==
    \A i \in DOMAIN lookups : \A j \in DOMAIN lookups :
        lookups[i].method = lookups[j].method => lookups[i].out = lookups[j].out

-----------------------------------------------------------------------------
(* Properties of SpecRateLimit *)

\* how many of the calls reached the handler
Admitted(rs) == Cardinality({k \in 1..Len(rs) : rs[k].handled})

\* C10: as long as no time has passed since the limiter was made, the first
\* calls up to the burst reach the handler and succeed, and every later call
\* is answered ResourceExhausted without the handler being run
C10_BurstThenRejected ==
    now = 0 =>
        \A k \in 1..Len(results) :
            IF k <= global.burst
            THEN results[k].handled /\ results[k].res.err = NoErr
            ELSE ~results[k].handled /\ results[k].res = Result(NilResp, errRateLimited)

\* six calls were made at once on a refilling limiter of burst two: two
\* were admitted and four rejected
C10_Witness ==
    /\ now = 0
    /\ global.burst = 2
    /\ global.limit > 0
    /\ Len(results) = 6
    /\ Admitted(results) = 2
    /\ \A k \in 3..6 : results[k].res.err = errRateLimited

-----------------------------------------------------------------------------
(* Properties of SpecPolicyLimit *)

\* the groups of the resolver both interceptors hold
PolicyResolverGroups == rlState["unary"].resolver.groups

\* what that resolver says about method m
Selected(m) == Resolve(PolicyResolverGroups, m)

\* Resolve selects a group for m, and that group has no policy or a policy
\* without a rate limit
SelectsUnlimited(m) == Selected(m).ok /\ ~Governing(Selected(m))

\* some group of the resolver has a rule that matches m and a policy with a
\* rate limit
LimitedGroupMatches(m) ==
    \E k \in DOMAIN PolicyResolverGroups :
        /\ RuleMatches(PolicyResolverGroups[k].rules[1], m)
        /\ ~PolicyResolverGroups[k].policy.isNil
        /\ ~PolicyResolverGroups[k].policy.RateLimit.isNil

\* the call c that has just returned was decided by the global limiter: it
\* was admitted if and only if that limiter held a token, which it took, and
\* no group limiter was made or touched
GlobalDecided(c) ==
    /\ c.handled = HasToken(global)
    /\ global' = Allow(global, now).lim
    /\ rlState' = rlState

\* C36: when the group Resolve selects for a method has no policy, or a
\* policy without a RateLimit, the request is governed by the global limiter,
\* also when another matching group of lower rank has a RateLimit.
C36_UnlimitedGroupUsesGlobal ==
    [][results' # results =>
         (SelectsUnlimited(results'[Len(results')].method) =>
              GlobalDecided(results'[Len(results')]))]_vars

\* a call for a method whose selected group has no rate limit, while another
\* group that matches it has one, took the global limiter's token; the next
\* took its last one and no group limiter exists
C36_Witness ==
    /\ Len(results) = 2
    /\ SelectsUnlimited(results[1].method)
    /\ LimitedGroupMatches(results[1].method)
    /\ results[2].method = results[1].method
    /\ results[1].handled /\ results[2].handled
    /\ global.tokens = 0
    /\ \A l \in Lanes : rlState[l].groups = NoGroups

\* the admitted calls that the global limiter governed, on either lane
GlobalAdmitted ==
    {i \in DOMAIN results : results[i].handled /\ ~Governing(Selected(results[i].method))}

\* the calls on one lane that the limiter of group n governed
GroupCalls(lane, n) ==
    {i \in DOMAIN results :
        /\ results[i].lane = lane
        /\ Governing(Selected(results[i].method))
        /\ Selected(results[i].method).groupName = n}

GroupAdmitted(lane, n) == {i \in GroupCalls(lane, n) : results[i].handled}

\* C39: the unary and the streaming rate-limit interceptor made by one
\* WithRateLimitGlobal share the global limiter and keep separate per-group
\* limiters: the global bucket has paid one token for every admitted call it
\* governed on either lane, and a lane holds a limiter for exactly the groups
\* called on that lane, each having paid for the admitted calls of that lane
\* alone.
C39_SharedGlobalSeparateGroups ==
    /\ Spent(global) = TokenUnit * Cardinality(GlobalAdmitted)
    /\ \A l \in Lanes : \A n \in {"g1", "g2"} :
        /\ n \in DOMAIN rlState[l].groups <=> GroupCalls(l, n) # {}
        /\ n \in DOMAIN rlState[l].groups =>
               Spent(rlState[l].groups[n]) = TokenUnit * Cardinality(GroupAdmitted(l, n))

\* one call per lane for a group of burst 1, both admitted, each by the
\* limiter of its lane; then one call per lane under the global limiter, which
\* took its two tokens
C39_Witness ==
    /\ Len(results) = 4
    /\ \A i \in 1..4 : results[i].handled
    /\ results[1].lane = "unary" /\ results[2].lane = "stream"
    /\ results[3].lane = "unary" /\ results[4].lane = "stream"
    /\ results[1].method = results[2].method
    /\ results[3].method = results[4].method
    /\ Governing(Selected(results[1].method))
    /\ Selected(results[1].method).pol.RateLimit.Rate = 1
    /\ ~Governing(Selected(results[3].method))
    /\ \A l \in Lanes : rlState[l].groups[Selected(results[1].method).groupName].tokens = 0
    /\ global.tokens = 0

\* the limiter a lane holds for group n has been asked once: it is the one
\* the lane held before if it held one, and one seeded from rule rl if not
AskedCachedOrSeeded(lane, n, rl) ==
    rlState'[lane].groups[n] =
        Allow(IF n \in DOMAIN rlState[lane].groups
              THEN rlState[lane].groups[n]
              ELSE NewLimiter(GroupLimit(rl), rl.Rate, now), now).lim

\* the call c that has just returned was for a group with a rate limit: the
\* limiter stored under the group's name was used, seeded only if the name
\* had none, and the lane holds no limiter under any other new key
GroupNameDecided(c, rr) ==
    /\ AskedCachedOrSeeded(c.lane, rr.groupName, rr.pol.RateLimit)
    /\ DOMAIN rlState'[c.lane].groups = DOMAIN rlState[c.lane].groups \cup {rr.groupName}

\* C40: the per-group limiters are keyed by the group's name alone: groups
\* of the same name share one limiter per interceptor, which is seeded from the
\* rate limit of the group resolved first under that name and keeps that
\* rate and burst whatever group is resolved under the name later.
C40_LimiterKeyedByName ==
    [][results' # results =>
         /\ Governing(Selected(results'[Len(results')].method)) =>
                GroupNameDecided(results'[Len(results')],
                                 Selected(results'[Len(results')].method))
         /\ \A l \in Lanes : \A n \in DOMAIN rlState[l].groups :
                /\ rlState'[l].groups[n].burst = rlState[l].groups[n].burst
                /\ rlState'[l].groups[n].limit = rlState[l].groups[n].limit]_vars

\* two groups of one name with different rate limits, one for each method;
\* both methods were called on the unary lane, which holds one limiter with
\* the burst of the group resolved first
C40_Witness ==
    /\ Len(results) = 2
    /\ PolicyResolverGroups[1].name = PolicyResolverGroups[2].name
    /\ results[1].lane = "unary" /\ results[2].lane = "unary"
    /\ Governing(Selected(results[1].method))
    /\ Governing(Selected(results[2].method))
    /\ Selected(results[1].method).pol.RateLimit.Rate
         # Selected(results[2].method).pol.RateLimit.Rate
    /\ DOMAIN rlState["unary"].groups = {PolicyResolverGroups[1].name}
    /\ rlState["unary"].groups[PolicyResolverGroups[1].name].burst
         = Selected(results[1].method).pol.RateLimit.Rate

-----------------------------------------------------------------------------
(* Properties of SpecIPBlock *)

IPCalled == ipCall.lane \in Lanes

\* address a lies in one of the prefixes
InSome(a, prefixes) == \E i \in DOMAIN prefixes : Contains(prefixes[i], a)

\* what the mode and the prefixes of blocker b say about address a
AddressAdmitted(b, a) ==
    IF b.mode = "AllowList" THEN InSome(a, b.cidrs) ELSE ~InSome(a, b.cidrs)

\* the peer of the call has an address, and a trusted proxy has it or not
PeerTrusted(b, c) == c.peer.t = "addr" /\ InSome(c.peer.a, b.trustedProxies)
PeerUntrusted(b, c) == c.peer.t = "addr" /\ ~InSome(c.peer.a, b.trustedProxies)

\* some header of the metadata holds an address that the blocker treats
\* differently from address a
HeaderDisagrees(b, md, a) ==
    \E k \in HeaderKeys : \E i \in DOMAIN md[k] : \E j \in DOMAIN md[k][i] :
        /\ md[k][i][j].t = "addr"
        /\ AddressAdmitted(b, md[k][i][j].a) # AddressAdmitted(b, a)

\* C13: when the peer address lies in no trusted-proxy prefix, an empty list
\* of trusted proxies included, the forwarding headers are not consulted:
\* whatever the metadata holds, Evaluate decides as the mode and the prefixes
\* say about the peer address itself.
C13_UntrustedPeerIgnoresHeaders ==
    (IPCalled /\ PeerUntrusted(ipBlocker, ipCall)) =>
        ipCall.allowed = AddressAdmitted(ipBlocker, ipCall.peer.a)

C13_Witness ==
    /\ IPCalled /\ PeerUntrusted(ipBlocker, ipCall)
    /\ Len(ipBlocker.trustedProxies) > 0
    /\ HeaderDisagrees(ipBlocker, ipCall.md, ipCall.peer.a)
    /\ ipCall.allowed

\* the header consulted first holds one value, a list "A, B" of two addresses
ListOfTwo(b, md) ==
    /\ Len(md[b.headerPriority[1]]) = 1
    /\ Len(md[b.headerPriority[1]][1]) = 2
    /\ md[b.headerPriority[1]][1][1].t = "addr"
    /\ md[b.headerPriority[1]][1][2].t = "addr"

LeftMost(b, md) == md[b.headerPriority[1]][1][1].a
RightMost(b, md) == md[b.headerPriority[1]][1][2].a

\* C14: when the peer is a trusted proxy and the forwarding header consulted
\* first holds a comma-separated list "A, B" of valid addresses, Evaluate
\* decides as the mode and the prefixes say about A, the left-most entry, not
\* about B and not about the peer address.
C14_LeftMostEntryDecides ==
    (IPCalled /\ PeerTrusted(ipBlocker, ipCall) /\ ListOfTwo(ipBlocker, ipCall.md)) =>
        ipCall.allowed = AddressAdmitted(ipBlocker, LeftMost(ipBlocker, ipCall.md))

C14_Witness ==
    /\ IPCalled /\ PeerTrusted(ipBlocker, ipCall) /\ ListOfTwo(ipBlocker, ipCall.md)
    /\ ipCall.allowed
    /\ ~AddressAdmitted(ipBlocker, RightMost(ipBlocker, ipCall.md))
    /\ ~AddressAdmitted(ipBlocker, ipCall.peer.a)

\* C15: Evaluate returns false whenever the context carries no peer, or the
\* peer address is nil or does not parse, in AllowList mode and in DenyList
\* mode, for every prefix set and every metadata.
C15_NoPeerAddressDenies ==
    (IPCalled /\ ipCall.peer.t \in {"none", "niladdr", "bad"}) => ~ipCall.allowed

C15_Witness ==
    /\ IPCalled /\ ipCall.peer.t = "bad"
    /\ ipBlocker.mode = "DenyList"
    /\ Len(ipBlocker.trustedProxies) > 0
    /\ \E a \in Addrs :
        /\ ipCall.md["x-forwarded-for"] = <<<<AddrTok(a)>>>>
        /\ AddressAdmitted(ipBlocker, a)
    /\ ~ipCall.allowed

\* the client address of the call, if it has one
ClientAddr(b, c) == resolveClientAddr(c.peer, c.md, b.trustedProxies, b.headerPriority)

\* the call decided as the mode and the prefixes say about address a, and
\* the interceptor acted on it: an admitted request reached the handler, a
\* rejected one did not and its caller got PermissionDenied
DecidedOn(b, c, a) ==
    /\ c.allowed = AddressAdmitted(b, a)
    /\ c.handled = c.allowed
    /\ ~c.allowed => c.err.code = "PermissionDenied"

\* C16: for a resolvable client address a, Evaluate returns true in AllowList
\* mode iff a lies in at least one configured prefix and in DenyList mode iff
\* it lies in none; a request the IP gate rejects does not reach the handler
\* and reaches the caller with code PermissionDenied.
C16_ModeAndMembershipDecide ==
    (IPCalled /\ ClientAddr(ipBlocker, ipCall).ok) =>
        DecidedOn(ipBlocker, ipCall, ClientAddr(ipBlocker, ipCall).a)

C16_Witness ==
    /\ IPCalled /\ ClientAddr(ipBlocker, ipCall).ok
    /\ ipBlocker.mode = "DenyList"
    /\ Len(ipBlocker.cidrs) = 2
    /\ ~Contains(ipBlocker.cidrs[1], ClientAddr(ipBlocker, ipCall).a)
    /\ Contains(ipBlocker.cidrs[2], ClientAddr(ipBlocker, ipCall).a)
    /\ ~ipCall.handled
    /\ ipCall.err = errBlocked

\* the address the resolver would find if it read, of each header, the
\* left-most token of the first value and nothing else
RECURSIVE FirstTokenOnly(_, _)
FirstTokenOnly(md, priority) ==
    IF priority = <<>> THEN NoAddr
    ELSE IF md[Head(priority)] # <<>> /\ md[Head(priority)][1][1].t = "addr"
    THEN SomeAddr(md[Head(priority)][1][1].a)
    ELSE FirstTokenOnly(md, Tail(priority))

\* the same, with the peer address to fall back on
FirstTokenOrPeer(b, c) ==
    IF FirstTokenOnly(c.md, b.headerPriority).ok
    THEN FirstTokenOnly(c.md, b.headerPriority).a
    ELSE c.peer.a

HeaderYields(md, k) ==
    \E i \in DOMAIN md[k] : \E j \in DOMAIN md[k][i] : md[k][i][j].t = "addr"

\* token j of value i is the first token of header k that parses, going
\* through the values in order and through each value from the left
FirstParsable(md, k, i, j) ==
    /\ md[k][i][j].t = "addr"
    /\ \A i2 \in 1..i : \A j2 \in DOMAIN md[k][i2] :
           (i2 < i \/ j2 < j) => md[k][i2][j2].t # "addr"

\* header h of the priority list is the first that holds an address
FirstYielding(b, md, h) ==
    /\ HeaderYields(md, b.headerPriority[h])
    /\ \A g \in 1..(h - 1) : ~HeaderYields(md, b.headerPriority[g])

DecidedByHeader(b, c, k) ==
    \E i \in DOMAIN c.md[k] : \E j \in DOMAIN c.md[k][i] :
        /\ c.md[k][i][j].t = "addr"
        /\ c.allowed = AddressAdmitted(b, c.md[k][i][j].a)

\* every address of header k is treated differently from address a
AllDisagree(b, md, k, a) ==
    \A i \in DOMAIN md[k] : \A j \in DOMAIN md[k][i] :
        md[k][i][j].t = "addr" =>
            AddressAdmitted(b, md[k][i][j].a) # AddressAdmitted(b, a)

\* C29: for a trusted peer the headers are read in the order of
\* HeaderPriority (x-real-ip, then x-forwarded-for, when none is configured):
\* Evaluate decides on an address of the first listed header that holds a
\* parseable one, and on the peer address when no listed header holds one.
C29_HeadersInPriorityOrder ==
    (IPCalled /\ PeerTrusted(ipBlocker, ipCall)) =>
        /\ \A h \in DOMAIN ipBlocker.headerPriority :
               FirstYielding(ipBlocker, ipCall.md, h) =>
                   DecidedByHeader(ipBlocker, ipCall, ipBlocker.headerPriority[h])
        /\ (\A h \in DOMAIN ipBlocker.headerPriority :
               ~HeaderYields(ipCall.md, ipBlocker.headerPriority[h])) =>
               ipCall.allowed = AddressAdmitted(ipBlocker, ipCall.peer.a)

\* with the default priority, x-real-ip and x-forwarded-for hold addresses
\* that are treated differently, and x-real-ip decides
C29_Witness ==
    /\ IPCalled /\ PeerTrusted(ipBlocker, ipCall)
    /\ ipBlocker.headerPriority = <<"x-real-ip", "x-forwarded-for">>
    /\ HeaderYields(ipCall.md, "x-real-ip")
    /\ HeaderYields(ipCall.md, "x-forwarded-for")
    /\ \E a \in Addrs :
        /\ ipCall.md["x-real-ip"] = <<<<AddrTok(a)>>>>
        /\ AllDisagree(ipBlocker, ipCall.md, "x-forwarded-for", a)
        /\ ipCall.allowed = AddressAdmitted(ipBlocker, a)
    /\ ipCall.allowed # AddressAdmitted(ipBlocker, ipCall.peer.a)

\* no listed header holds an address, x-real-ip (not listed) holds one that
\* is treated differently from the peer address, and the peer address decides
C29_WitnessPeer ==
    /\ IPCalled /\ PeerTrusted(ipBlocker, ipCall)
    /\ ipBlocker.headerPriority = <<"x-forwarded-for">>
    /\ ~HeaderYields(ipCall.md, "x-forwarded-for")
    /\ HeaderYields(ipCall.md, "x-real-ip")
    /\ AllDisagree(ipBlocker, ipCall.md, "x-real-ip", ipCall.peer.a)

-----------------------------------------------------------------------------
(* Properties of SpecGates *)

AuthCalls == {i \in DOMAIN gateCalls : gateCalls[i].kind = "auth"}
RequestIDCalls == {i \in DOMAIN gateCalls : gateCalls[i].kind = "requestid"}

\* the error is a gRPC status error: status.FromError knows its code
IsStatus(err) == err.code \notin {"OK", "plain"}

\* the call was refused as authError is documented to do
AuthRefused(c) ==
    /\ ~c.handled
    /\ IF IsStatus(c.fnErr) THEN c.err = c.fnErr
       ELSE c.err.code = "Unauthenticated" /\ c.err = errUnauthenticated

\* C17: when the AuthFunc returns a non-nil error, AuthUnary and AuthStream
\* do not invoke the handler; the caller gets the AuthFunc's error unchanged
\* if it is a gRPC status error, keeping its code, and the fixed
\* Unauthenticated error otherwise.
C17_AuthErrorStopsTheCall ==
    \A i \in AuthCalls : gateCalls[i].fnErr # NoErr => AuthRefused(gateCalls[i])

C17_Witness ==
    /\ Len(gateCalls) = 2
    /\ gateCalls[1].kind = "auth" /\ gateCalls[1].lane = "unary"
    /\ gateCalls[1].fnErr = AuthStatusErr /\ gateCalls[1].err.code = "PermissionDenied"
    /\ gateCalls[2].kind = "auth" /\ gateCalls[2].lane = "stream"
    /\ gateCalls[2].fnErr = AuthPlainErr /\ gateCalls[2].err.code = "Unauthenticated"

\* the handler of the call got a context with a request ID, the one the call
\* came with if it came with one
Tagged(c) ==
    /\ c.handled
    /\ c.ctx.rid # ""
    /\ c.given.rid # "" => c.ctx.rid = c.given.rid /\ c.ch \notin GenIDs

\* C18: the context RequestIDUnary passes to the handler always carries a
\* non-empty request ID; if the incoming context already carried one, the
\* handler sees exactly that ID and no new one is generated.
C18_RequestIDEnsured ==
    \A i \in RequestIDCalls : gateCalls[i].lane = "unary" => Tagged(gateCalls[i])

C18_Witness ==
    /\ Len(gateCalls) = 2
    /\ gateCalls[1].kind = "requestid" /\ gateCalls[1].lane = "unary"
    /\ gateCalls[1].given.rid = "" /\ gateCalls[1].ctx.rid \in GenIDs
    /\ gateCalls[2].kind = "requestid" /\ gateCalls[2].lane = "unary"
    /\ gateCalls[2].given.rid = "upstream" /\ gateCalls[2].ctx.rid = "upstream"

\* the context the AuthFunc returned for its choice ch, given ctx
AuthFuncCtx(ch, ctx) == IF ch = "actor" THEN [ctx EXCEPT !.actor = "alice"] ELSE ctx

\* C34: when the AuthFunc succeeds, the handler is invoked with the context
\* the AuthFunc returned (for instance one carrying an Actor), on unary and on
\* streaming calls alike.
C34_AuthContextReachesHandler ==
    \A i \in AuthCalls : gateCalls[i].fnErr = NoErr =>
        /\ gateCalls[i].handled
        /\ gateCalls[i].ctx = AuthFuncCtx(gateCalls[i].ch, gateCalls[i].given)

\* C35: every call that passes the request-ID stage reaches its handler with
\* a request ID in the context, on streaming calls as on unary ones.
C35_RequestIDOnEveryLane ==
    \A i \in RequestIDCalls : gateCalls[i].handled /\ gateCalls[i].ctx.rid # ""

-----------------------------------------------------------------------------
(* Properties of SpecConcurrent *)

\* the goroutines that limiter i has answered true
Granted(i) == {p \in Procs : procs[p].lim = i /\ procs[p].ok}

\* C19: under any interleaving of concurrent Allow calls on one Limiter,
\* with no time passing, the number of calls that return true never exceeds
\* the burst of the limiter: a token is granted to one caller at most.
C19_GrantsWithinBurst ==
    \A i \in DOMAIN limiters : Cardinality(Granted(i)) <= limiters[i].lim.burst

C19_Witness ==
    /\ \A p \in Procs : procs[p].pc = "done" /\ procs[p].lim = 1
    /\ Cardinality(Granted(1)) = limiters[1].lim.burst
    /\ \E p \in Procs : ~procs[p].ok /\ procs[p].out.res.err = errRateLimited

\* the goroutine has got its limiter from groupLimiter
HasGroupLimiter(q) ==
    q.name # "" /\ q.pc \in {"allow", "read", "write", "return", "done"}

\* no entry of the cache is removed or replaced by the step
CacheKept ==
    \A n \in DOMAIN stGroups : n \in DOMAIN stGroups' /\ stGroups'[n] = stGroups[n]

\* no two limiters were made for one group
OnePerGroup ==
    \A i, j \in DOMAIN limiters : limiters[i].group = limiters[j].group => i = j

\* the goroutines whose method resolves to a group hold the cached limiter of
\* that group
CachedLimiterUsed ==
    \A p \in Procs :
        HasGroupLimiter(procs[p]) =>
            /\ procs[p].name \in DOMAIN stGroups
            /\ procs[p].lim = stGroups[procs[p].name]
            /\ limiters[procs[p].lim].group = procs[p].name

\* C20: under any interleaving of concurrent requests through one rate-limit
\* interceptor, at most one Limiter is ever created per group name, its cache
\* entry is never removed or replaced, and every request that resolves to
\* the group is checked against that same limiter.
C20_OneLimiterPerGroup ==
    [][CacheKept /\ OnePerGroup' /\ CachedLimiterUsed']_vars

C20_Witness ==
    /\ \A p \in Procs : procs[p].pc = "done" /\ procs[p].name = "g1"
    /\ Len(limiters) = 2
    /\ stGroups["g1"] = 2

\* C32 as stated: once the limiter of a group is in the cache, a request for
\* the group gets it by a lookup made before st.mu is acquired; the mutex is
\* acquired only to create a missing entry.
C32_LockOnlyToCreate ==
    \A p \in Procs : (procs[p].pc = "lookup" /\ stMu = p) => ~procs[p].cached

\* goroutine p gets the limiter of its group in the step
ObtainsGroupLimiter(p) == procs[p].name # "" /\ procs'[p].lim # procs[p].lim

\* a limiter is made in the step
LimiterMade == Len(limiters') > Len(limiters)

\* the goroutine that holds st.mu has found no limiter for its group
HolderMissed ==
    \E p \in Procs : stMu = p /\ procs[p].pc = "create" /\ procs[p].name \notin DOMAIN stGroups

\* C32, amended: every request for a group with a RateLimit rule acquires
\* st.mu and looks the group up while it holds the mutex, whether or not the
\* limiter is in the cache already; there is no lookup before the lock. A
\* limiter is made only by the holder of the mutex after its lookup missed.
C32_LookupUnderMutex ==
    [][/\ \A p \in Procs : ObtainsGroupLimiter(p) => stMu = p /\ stMu' = p
       /\ LimiterMade => HolderMissed]_vars

\* a goroutine whose group was in the cache when its request arrived has
\* taken the mutex all the same and got the cached limiter under it
C32_Witness ==
    \E p \in Procs :
        /\ procs[p].pc = "unlock" /\ stMu = p
        /\ procs[p].cached
        /\ procs[p].lim = stGroups[procs[p].name]

-----------------------------------------------------------------------------
(* Properties of SpecCache *)

LoaderNeverFailed == \A i \in DOMAIN loaderRuns : ~loaderRuns[i].err

\* the goroutine has returned the value of the first invocation of the loader
ReturnedFirstLoad(q) == q.pc = "done" => ~q.err /\ q.val = loaderRuns[1].val

\* C21: when several goroutines call GetOrSet of an L1 or of a Tiered cache
\* for one key that is not cached, the loader is invoked once under any
\* interleaving, and every caller returns the value it gave.
C21_LoaderInvokedOnce ==
    LoaderNeverFailed =>
        /\ Len(loaderRuns) <= 1
        /\ \A p \in Procs : ReturnedFirstLoad(callers[p])

-----------------------------------------------------------------------------
(* Properties of SpecBreaker *)

BreakerCalls == DOMAIN bcalls

\* the first call of the stay in one state that call i found the breaker in
StayStart(i) ==
    CHOOSE j \in 1..i :
        /\ \A k \in j..i : bcalls[k].from = bcalls[i].from
        /\ j = 1 \/ bcalls[j - 1].from # bcalls[i].from

\* the call before which the count of failures that call i adds to began:
\* the last OnSuccess of the stay, or the call before the stay
LastReset(i) ==
    IF \E k \in StayStart(i)..i : bcalls[k].op = "OnSuccess"
    THEN CHOOSE k \in StayStart(i)..i :
            /\ bcalls[k].op = "OnSuccess"
            /\ \A m \in (k + 1)..i : bcalls[m].op # "OnSuccess"
    ELSE StayStart(i) - 1

\* the OnFailure calls up to call i with no OnSuccess between them
FailureRun(i) == Cardinality({k \in (LastReset(i) + 1)..i : bcalls[k].op = "OnFailure"})

OpenedAt(i) == bcalls[StayStart(i) - 1].at

\* what State or Allow returns for a breaker that stays Open
SaysOpen(c) ==
    /\ c.op = "State" => c.ret = "Open"
    /\ c.op = "Allow" => c.ret = FALSE

\* C23: a call that finds the breaker Open never leaves it Closed; while
\* less than OpenTimeout has passed since it opened, State and Allow leave it
\* Open, State returns Open and Allow returns false; once OpenTimeout has
\* passed, the next State or Allow call moves it to HalfOpen.
C23_OpenUntilTimeout ==
    \A i \in BreakerCalls :
        bcalls[i].from = "Open" =>
            /\ bcalls[i].to # "Closed"
            /\ bcalls[i].op \in {"State", "Allow"} =>
                   IF bcalls[i].at - OpenedAt(i) < breaker.cfg.OpenTimeout
                   THEN bcalls[i].to = "Open" /\ SaysOpen(bcalls[i])
                   ELSE bcalls[i].to = "HalfOpen"

\* a trip, an Allow refused before the timeout, an Allow after it
C23_Witness ==
    /\ Len(bcalls) >= 3
    /\ breaker.cfg.OpenTimeout = 2
    /\ bcalls[1].to = "Open"
    /\ bcalls[2].op = "Allow" /\ bcalls[2].at = bcalls[1].at + 1 /\ bcalls[2].ret = FALSE
    /\ bcalls[3].op = "Allow" /\ bcalls[3].at = bcalls[1].at + 2
    /\ bcalls[3].from = "Open" /\ bcalls[3].to = "HalfOpen"

\* the OnSuccess calls of the HalfOpen stay up to call i
SuccessRun(i) == Cardinality({k \in StayStart(i)..i : bcalls[k].op = "OnSuccess"})

\* the last call closed a HalfOpen breaker
JustClosed ==
    /\ bcalls # <<>>
    /\ bcalls[Len(bcalls)].from = "HalfOpen"
    /\ bcalls[Len(bcalls)].to = "Closed"

\* the last call was an OnFailure that found the breaker HalfOpen
JustReopened ==
    /\ bcalls # <<>>
    /\ bcalls[Len(bcalls)].from = "HalfOpen"
    /\ bcalls[Len(bcalls)].op = "OnFailure"

C24_WitnessReopen ==
    /\ JustReopened
    /\ bcalls[Len(bcalls)].at > bcalls[1].at

\* the Allow calls that returned true in the HalfOpen period of call i, up to
\* call i
Probes(i) ==
    Cardinality({k \in 1..i :
        /\ bcalls[k].op = "Allow" /\ bcalls[k].ret = TRUE
        /\ \A m \in k..i : bcalls[m].to = "HalfOpen"})

\* C25: during one HalfOpen period at most HalfOpenMaxSuccess calls of Allow
\* return true.
C25_ProbesLimited ==
    \A i \in BreakerCalls :
        bcalls[i].to = "HalfOpen" => Probes(i) <= breaker.cfg.HalfOpenMaxSuccess

-----------------------------------------------------------------------------
(* Properties of SpecRetry *)

FnCalls == retryDo.fnCalls

\* every call of fn but the last returned an error with a gRPC status whose
\* code is listed in RetryCodes
RetriedOnlyListed ==
    \A k \in 1..(Len(FnCalls) - 1) :
        /\ ~FnCalls[k].out.ok
        /\ FnCalls[k].out.status
        /\ FnCalls[k].out.code \in retryDo.cfg.RetryCodes

DoCallsBounded ==
    /\ Len(FnCalls) <= (IF retryDo.cfg.MaxAttempts > 1 THEN retryDo.cfg.MaxAttempts ELSE 1)
    /\ retryDo.pc = "done" => Len(FnCalls) >= 1
    /\ RetriedOnlyListed

\* C26: retry.Do calls fn at least once and at most max(MaxAttempts, 1)
\* times, never again after a success, and again after an error only if the
\* error is a gRPC status whose code is in RetryCodes; and Do always returns.
C26_BoundedRetries == []DoCallsBounded /\ <>(retryDo.pc = "done")

\* two retried errors, then a success at the last attempt allowed
C26_Witness ==
    /\ retryDo.pc = "done"
    /\ retryDo.cfg.MaxAttempts = 3
    /\ Len(FnCalls) = 3
    /\ retryDo.ret.ok

\* C27: Do checks the context before every retry: when the context is done
\* at the moment the wait before a retry ends, fn is not called again.
C27_NoRetryOnceContextDone ==
    \A k \in DOMAIN FnCalls : ~FnCalls[k].ctxDone

-----------------------------------------------------------------------------
(* Properties of SpecBackoff *)

\* C38: for every attempt index and every Jitter setting the delay backoff
\* returns is at most MaxDelay, and with Jitter zero it is exactly the
\* smaller of BaseDelay * 2^attempt and MaxDelay.
C38_BackoffCapped ==
    \A i \in DOMAIN results :
        /\ results[i].delay <= results[i].cfg.MaxDelay
        /\ results[i].cfg.Jitter = 0 =>
               results[i].delay =
                   Min(results[i].cfg.BaseDelay * (2 ^ results[i].attempt),
                       results[i].cfg.MaxDelay)

=============================================================================
